---- MODULE Spec2Model ----
(***************************************************************************)
(* A model of the Rocket documentation build engine: the evaluator/worker  *)
(* (src/src/evaluator.rs), its directives (src/src/directives/mod.rs), the *)
(* stack parser (src/src/parse.rs), slugs (src/src/page.rs) and the        *)
(* two-phase build pipeline (src/src/main.rs).                             *)
(*                                                                         *)
(* Strings are sequences of pieces.  A piece is a TLC string that stands   *)
(* for a run of characters of one class: a lowercase word, one special     *)
(* character, one markup tag, or one placeholder marker.  Conversions      *)
(* (escape_string, title_to_id, placeholder formatting and matching) are   *)
(* defined piece by piece, by what they do to each class.                  *)
(***************************************************************************)
EXTENDS Integers, Sequences, FiniteSets, TLC

VARIABLES
    \* ---- build pipeline (main.rs build_project) ----
    paths,          \* Vec<PathBuf>: the source files found, as page numbers
    source,         \* page number -> its source program (or "bad" = unparseable)
    num_cpus,       \* num_cpus::get()
    mpc,            \* position of the main thread in build_project
    tpc,            \* thread -> position of the build thread
    tidx,           \* thread -> index of the current path in its chunk
    worker,         \* thread -> the thread's private Worker
    refdefs,        \* Evaluator.refdefs: refid -> RefDef
    pending_links,  \* Evaluator.pending_links: Vec<(PlaceholderAction, String)>
    titles,         \* titles: HashMap<Slug, String>
    pending_pages,  \* pending_pages: Vec<Page>
    finish_count,   \* how many times toctree.finish has run
    jobs,           \* the link jobs handed to the scoped pool
    written,        \* output files: slug -> final body
    built,          \* thread -> the Page build_file returned, until it is pushed
    registered,     \* history: every (refid, title, slug) insert_refdef was called with
    heading_err,    \* history: slugs on which a heading directive returned Err
    \* ---- evaluation of one page's tree by one Worker (evaluator.rs) ----
    program,        \* the children of the page's root Block after "concat"
    epos,           \* index of the next child concat_nodes evaluates
    ew,             \* the Worker, with the Evaluator's refdefs and pending_links
    etrace,         \* history: per evaluated child, the Worker before and after,
                    \*          the child's output and whether its lookup returned Err
    epc,            \* "eval" while children remain, then "done"
    eoutput,        \* build_file's output string once evaluation is done
    \* ---- parsing of one source text (parse.rs Parser::parse_string) ----
    pinput,         \* the source text, as a sequence of lexemes
    ptokens,        \* Vec<Token> returned by lex(data)
    ppos,           \* index of the next token of the for loop
    pstack,         \* ParseContextStack.stack, the top handler last
    pprev,          \* history: the stack as it was before the last token handled
    ppc,            \* "lex", "parse", then "done" or "panic"
    presult,        \* the Result parse_string returned
    \* ---- lexing of one source text (lex.rs lex) ----
    ldata,          \* data: the text, one character per element
    lpos,           \* where the next match of PAT_TOKENS.find_iter starts
    llineno,        \* lineno
    llast,          \* last_match_start
    ltokens,        \* tokens
    lindent,        \* indent: the indentation stack
    lrocket,        \* start_rocket
    lpc,            \* "lex" in the loop, then "done" or "panic"
    lstep,          \* history: the text of the last match and the tokens before it
    \* ---- the table of contents (toctree.rs TocTree) ----
    tparent,        \* parent: page -> Option<page>, as add recorded it
    titer,          \* the order in which finish met the HashMap's entries
    tcache,         \* cache: key -> rendered HTML
    tcur,           \* the slug generate_html was last called with
    thtml,          \* the tokens generate_html last returned
    tcalls,         \* how many times generate_html has run
    tstage,         \* "built" once add and finish have run
    \* ---- one call of Slug::path_to (page.rs) ----
    sslug,          \* self.slug, as pieces: "index", a letter, or the separator "/"
    sdest,          \* dest
    spretty,        \* pretty_url
    sresult,        \* the String path_to returned
    spc,            \* "call", then "done"
    \* ---- the shared locks of one build (main.rs build_project, evaluator.rs) ----
    kscript,        \* build thread -> the lock-taking calls its file has yet to make
    kpc,            \* build thread -> "run", "hold" (inside a guard's scope) or "done"
    kheld,          \* the guards alive: <<owner, lock, mode>>
    kmain,          \* where the main thread stands after spawning
    kjob,           \* link job -> "none", "queued", "r1", "r2" or "done"
    \* ---- one call of the version directive (directives/mod.rs Version) ----
    vversion,       \* the text Version::new was given, as pieces: a word or "."
    vargs,          \* args
    vresult,        \* what handle returned, or that it panicked
    vpc             \* "call", then "done"

pvars == <<paths, source, num_cpus, mpc, tpc, tidx, worker, refdefs, pending_links,
           titles, pending_pages, finish_count, jobs, written, built, registered,
           heading_err>>

evars == <<program, epos, ew, etrace, epc, eoutput>>

qvars == <<pinput, ptokens, ppos, pstack, pprev, ppc, presult>>

lvars == <<ldata, lpos, llineno, llast, ltokens, lindent, lrocket, lpc, lstep>>

tvars == <<tparent, titer, tcache, tcur, thtml, tcalls, tstage>>

svars == <<sslug, sdest, spretty, sresult, spc>>

kvars == <<kscript, kpc, kheld, kmain, kjob>>

vvars == <<vversion, vargs, vresult, vpc>>

vars == <<pvars, evars, qvars, lvars, tvars, svars, kvars, vvars>>

\* no page is being evaluated by the stand-alone Worker
EvalIdle ==
    /\ program = <<>>
    /\ epos = 0
    /\ ew = <<>>
    /\ etrace = <<>>
    /\ epc = "idle"
    /\ eoutput = <<>>

\* no text is being parsed
ParseIdle ==
    /\ pinput = <<>>
    /\ ptokens = <<>>
    /\ ppos = 0
    /\ pstack = <<>>
    /\ pprev = <<>>
    /\ ppc = "idle"
    /\ presult = <<>>

\* no text is being lexed by lex.rs
LexIdle ==
    /\ ldata = <<>>
    /\ lpos = 0
    /\ llineno = 0
    /\ llast = 0
    /\ ltokens = <<>>
    /\ lindent = <<>>
    /\ lrocket = FALSE
    /\ lpc = "idle"
    /\ lstep = <<>>

\* no table of contents has been built
TocIdle ==
    /\ tparent = <<>>
    /\ titer = ""
    /\ tcache = <<>>
    /\ tcur = 0
    /\ thtml = <<>>
    /\ tcalls = 0
    /\ tstage = "idle"

\* no path_to call is under way
SlugIdle ==
    /\ sslug = <<>>
    /\ sdest = <<>>
    /\ spretty = FALSE
    /\ sresult = <<>>
    /\ spc = "idle"

\* no build is taking locks
LockIdle ==
    /\ kscript = <<>>
    /\ kpc = <<>>
    /\ kheld = {}
    /\ kmain = "idle"
    /\ kjob = <<>>

\* the version directive is not being called
VersionIdle ==
    /\ vversion = <<>>
    /\ vargs = <<>>
    /\ vresult = <<>>
    /\ vpc = "idle"

----------------------------------------------------------------------------
\* Bounds of the model

MaxPages == 2
MaxCpus == 2
MaxMarker == 12

----------------------------------------------------------------------------
\* Strings as sequences of pieces

Digit(d) ==
    CASE d = 0 -> "0" [] d = 1 -> "1" [] d = 2 -> "2" [] d = 3 -> "3"
      [] d = 4 -> "4" [] d = 5 -> "5" [] d = 6 -> "6" [] d = 7 -> "7"
      [] d = 8 -> "8" [] OTHER -> "9"

RECURSIVE Dec(_)
\* usize/i8 Display: the decimal digits of n
Dec(n) == IF n < 10 THEN Digit(n) ELSE Dec(n \div 10) \o Digit(n % 10)

\* str::repeat
Repeat(piece, n) == [i \in 1..(IF n > 0 THEN n ELSE 0) |-> piece]

RECURSIVE Flat(_)
\* the characters of a string, as one TLC string (used to compare and to key maps)
Flat(s) == IF s = <<>> THEN "" ELSE Head(s) \o Flat(Tail(s))

RECURSIVE JoinWith(_, _)
JoinWith(parts, sep) ==
    IF parts = <<>> THEN ""
    ELSE IF Len(parts) = 1 THEN parts[1]
    ELSE parts[1] \o sep \o JoinWith(Tail(parts), sep)

Count(s, piece) == Cardinality({i \in DOMAIN s : s[i] = piece})

----------------------------------------------------------------------------
\* page.rs: Slug.  A slug is the sequence of its path components.

PrettyUrl == TRUE

IndexSlug == <<"index">>

SlugStr(slug) == JoinWith(slug, "/")

\* Slug::depth
SlugDepth(slug, pretty_url) ==
    LET modifier == IF pretty_url /\ slug # IndexSlug THEN 1 ELSE 0
    IN  (Len(slug) - 1) + modifier

\* Slug::path_to
PathTo(slug, dest, pretty_url) ==
    Flat(Repeat("../", SlugDepth(slug, pretty_url))) \o dest

----------------------------------------------------------------------------
\* evaluator.rs: the shared Evaluator and the Worker's primitive operations

\* Evaluator::new: placeholder_prefix is 32 random hex digits; "P" stands for them
PlaceholderPrefix == "P"

\* format!("%{}-{}%", prefix, index)
PlaceholderStr(n) == "%" \o PlaceholderPrefix \o "-" \o Dec(n) \o "%"

\* Worker::get_placeholder returning the length after the push as the index
GetPlaceholderLen(links, refid, action) ==
    LET txn == Append(links, [action |-> action, refid |-> refid])
    IN  [links |-> txn, marker |-> PlaceholderStr(Len(txn))]

\* Worker::get_placeholder: push (action, refid), return the marker of the new index
GetPlaceholder(links, refid, action) ==
    LET txn == Append(links, [action |-> action, refid |-> refid])
    IN  [links |-> txn, marker |-> PlaceholderStr(Len(txn) - 1)]

\* RefDef::new
NewRefDef(title, slug) == [title |-> title, slug |-> slug]

\* Worker::insert_refdef: HashMap::insert
InsertRefdef(defs, refid, refdef) ==
    [k \in DOMAIN defs \cup {refid} |-> IF k = refid THEN refdef ELSE defs[k]]

\* handle_heading without the final else: any deeper level opens one section
HandleHeadingAnyJump(level, current_level) ==
    IF level > current_level
        THEN [ok |-> TRUE, prefix |-> <<"<section>">>, level |-> level]
    ELSE IF level = current_level
        THEN [ok |-> TRUE, prefix |-> <<>>, level |-> level]
    ELSE [ok |-> TRUE, prefix |-> Repeat("</section>", current_level - level),
          level |-> level]

\* Worker::handle_heading
HandleHeading(level, current_level) ==
    IF level = current_level + 1
        THEN [ok |-> TRUE, prefix |-> <<"<section>">>, level |-> level]
    ELSE IF level = current_level
        THEN [ok |-> TRUE, prefix |-> <<>>, level |-> level]
    ELSE IF level < current_level
        THEN [ok |-> TRUE, prefix |-> Repeat("</section>", current_level - level),
              level |-> level]
    ELSE [ok |-> FALSE, prefix |-> <<>>, level |-> current_level]

\* Worker::close_sections
CloseSections(current_level) == Repeat("</section>", current_level)

----------------------------------------------------------------------------
\* directives/mod.rs: string helpers

UpperChars == {"A", "B", "C", "T"}

Lower(p) ==
    CASE p = "A" -> "a" [] p = "B" -> "b" [] p = "C" -> "c" [] p = "T" -> "t"
      [] OTHER -> p

\* escape_string, on one piece
EscapePiece(p) ==
    CASE p = "\"" -> "&#34;"
      [] p = "'" -> "&#39;"
      [] p = "<" -> "&lt;"
      [] p = ">" -> "&gt;"
      [] p = "&" -> "&amp;"
      [] OTHER -> p

\* escape_string
EscapeString(s) == Flat([i \in DOMAIN s |-> EscapePiece(s[i])])

\* Heading::title_to_id, on one piece: alphanumerics are lowercased, '-' and '_'
\* kept, ' ' becomes '-', any other character becomes its code point in decimal
TitleToIdPiece(p) ==
    CASE p \in UpperChars -> Lower(p)
      [] p = " " -> "-"
      [] p = "!" -> "33"
      [] p = "\"" -> "34"
      [] p = "&" -> "38"
      [] p = "'" -> "39"
      [] p = "<" -> "60"
      [] p = ">" -> "62"
      [] OTHER -> p

\* Heading::title_to_id
TitleToId(title) == [i \in DOMAIN title |-> TitleToIdPiece(title[i])]

\* the format! of Heading::handle
HeadingHtml(prefix, level, refid, title) ==
    prefix \o <<"<h" \o Dec(level), " id=\"" \o EscapeString(refid) \o "\">">>
           \o title \o <<"</h" \o Dec(level), ">">>

\* the format! of RefDirective::handle
RefHtml(placeholder, title) ==
    <<"<a href=\"", placeholder, "\">">> \o title \o <<"</a>">>

----------------------------------------------------------------------------
\* inject_paragraphs.rs

BlockTagPieces == {"<section>", "</section>"}

\* (?:</?[a-z0-9]+) with a tag name in BLOCK_TAGS
IsBlockTag(p) ==
    \/ p \in BlockTagPieces
    \/ \E l \in 1..6 : p = "<h" \o Dec(l) \/ p = "</h" \o Dec(l)

RECURSIVE InjectFrom(_, _)
\* inject_paragraphs: a paragraph opener follows every blank line, and is taken
\* back when a block-level tag comes next (no page of the model opens <pre>)
InjectFrom(text, result) ==
    IF text = <<>> THEN result
    ELSE IF result # <<>> /\ result[Len(result)] = "<p>"
        THEN IF Head(text) = "\n\n"
                 THEN InjectFrom(Tail(text),
                                 SubSeq(result, 1, Len(result) - 1) \o <<"\n\n", "<p>">>)
             ELSE IF IsBlockTag(Head(text))
                 THEN InjectFrom(Tail(text),
                                 Append(SubSeq(result, 1, Len(result) - 1), Head(text)))
             ELSE InjectFrom(Tail(text), Append(result, Head(text)))
    ELSE IF Head(text) = "\n\n"
        THEN InjectFrom(Tail(text), result \o <<"\n\n", "<p>">>)
    ELSE InjectFrom(Tail(text), Append(result, Head(text)))

InjectParagraphs(text) == InjectFrom(text, <<>>)

----------------------------------------------------------------------------
\* The page sources of the pipeline model.  A source is the list of top-level
\* directive invocations of the file (the children of the root concat block),
\* each with literal arguments, or a file the parser rejects.

TextOp(s) == [op |-> "text", a1 |-> s, a2 |-> <<>>, n |-> 1, level |-> 0]
DefRefOp(id, title) == [op |-> "define-ref", a1 |-> id, a2 |-> title, n |-> 2, level |-> 0]
RefOp(id) == [op |-> "ref", a1 |-> id, a2 |-> <<>>, n |-> 1, level |-> 0]
RefTitleOp(id, title) == [op |-> "ref", a1 |-> id, a2 |-> title, n |-> 2, level |-> 0]
HeadingOp(level, title) == [op |-> "h", a1 |-> title, a2 |-> <<>>, n |-> 1, level |-> level]
HeadingIdOp(level, id, title) == [op |-> "h", a1 |-> id, a2 |-> title, n |-> 2, level |-> level]

Unparseable == [ok |-> FALSE, ops |-> <<>>]
Parsed(ops) == [ok |-> TRUE, ops |-> ops]

Sources == {
    Unparseable,
    Parsed(<<HeadingIdOp(1, <<"r">>, <<"T">>), TextOp(<<"\n\n", "x">>), RefOp(<<"q">>)>>),
    Parsed(<<DefRefOp(<<"q">>, <<"A", " ", "b">>), RefTitleOp(<<"r">>, <<"see">>),
             HeadingOp(2, <<"s">>)>>)
}

\* the slug main.rs derives from each path: content/index.rocket, content/a.rocket,
\* content/b/c.rocket, content/b/d.rocket, ...
PageSlug(p) ==
    CASE p = 1 -> <<"index">>
      [] p = 2 -> <<"a">>
      [] p = 3 -> <<"b", "c">>
      [] OTHER -> <<"b", "d" \o Dec(p)>>

----------------------------------------------------------------------------
\* main.rs build_project: chunking

\* chunk_size rounded down
ChunkSizeFloor(n, cpus) == n \div cpus

\* (paths.len() as f32 / num_cpus as f32).ceil() as usize
ChunkSize(n, cpus) == (n + cpus - 1) \div cpus

\* paths.chunks(chunk_size): the number of chunks
NumChunks(n, cpus) ==
    IF ChunkSize(n, cpus) = 0 THEN 0
    ELSE (n + ChunkSize(n, cpus) - 1) \div ChunkSize(n, cpus)

\* paths.chunks(chunk_size): chunk t (1-based)
Chunk(ps, cpus, t) ==
    LET cs == ChunkSize(Len(ps), cpus)
        lo == (t - 1) * cs + 1
        hi == IF t * cs < Len(ps) THEN t * cs ELSE Len(ps)
    IN  SubSeq(ps, lo, hi)

Threads == 1..NumChunks(Len(paths), num_cpus)

MyChunk(t) == Chunk(paths, num_cpus, t)

----------------------------------------------------------------------------
\* evaluator.rs Evaluator::substitute

\* placeholder_pattern: %<prefix>-(\d+)%
IsPlaceholder(p) == \E n \in 0..MaxMarker : p = PlaceholderStr(n)

\* str::parse::<u64>(&captures[1])
ParseMarker(p) == CHOOSE n \in 0..MaxMarker : p = PlaceholderStr(n)

\* SubstituteMatch with the two slugs of path_to exchanged
SubstituteMatchSwapped(page, p, links, defs) ==
    LET ref_number == ParseMarker(p)
        link == links[ref_number + 1]
    IN  IF link.refid \notin DOMAIN defs THEN ""
        ELSE IF link.action = "Path"
            THEN PathTo(defs[link.refid].slug, SlugStr(page.slug), TRUE)
        ELSE Flat(defs[link.refid].title)

\* the closure given to replace_all, for one match
SubstituteMatch(page, p, links, defs) ==
    LET ref_number == ParseMarker(p)
        link == links[ref_number + 1]
    IN  IF link.refid \notin DOMAIN defs THEN ""
        ELSE IF link.action = "Path"
            THEN PathTo(page.slug, SlugStr(defs[link.refid].slug), TRUE)
        ELSE Flat(defs[link.refid].title)

\* Evaluator::substitute: every match is replaced; the result is always Ok unless
\* r1.get(ref_number) is None, which panics
Substitute(page, links, defs) ==
    LET missing == \E i \in DOMAIN page.body :
                      /\ IsPlaceholder(page.body[i])
                      /\ ParseMarker(page.body[i]) + 1 > Len(links)
    IN  IF missing THEN [ok |-> FALSE, panic |-> TRUE, body |-> <<>>]
        ELSE [ok |-> TRUE, panic |-> FALSE,
              body |-> [i \in DOMAIN page.body |->
                          IF IsPlaceholder(page.body[i])
                              THEN SubstituteMatch(page, page.body[i], links, defs)
                              ELSE page.body[i]]]

----------------------------------------------------------------------------
\* page.rs Page

\* Page::title
PageTitle(page) == IF page.has_title THEN Flat(page.title) ELSE "Untitled"

\* Slug::create_output_path
OutputPath(slug, prefix, pretty_url) ==
    prefix \o "/" \o SlugStr(slug)
           \o (IF pretty_url /\ slug # IndexSlug THEN "/index" ELSE "") \o ".html"

----------------------------------------------------------------------------
\* main.rs build_project: the build threads

\* Worker::new_with_options
NewWorker ==
    [slug |-> <<>>, current_level |-> 0, has_title |-> FALSE, title |-> <<>>,
     out |-> <<>>, opi |-> 0, held |-> <<>>]

NoPage == [source_path |-> 0, slug |-> <<>>, body |-> <<>>, has_title |-> FALSE,
           title |-> <<>>]

CurPath(t) == MyChunk(t)[tidx[t]]
CurOps(t) == source[CurPath(t)].ops
CurOp(t) == CurOps(t)[worker[t].opi]
Evaluating(t) == tpc[t] = "eval" /\ worker[t].opi <= Len(CurOps(t))

PInit ==
    /\ \E n \in 0..MaxPages : paths = [i \in 1..n |-> i]
    /\ source \in [DOMAIN paths -> Sources]
    /\ num_cpus \in 1..MaxCpus
    /\ mpc = "start"
    /\ tpc = [t \in Threads |-> "unspawned"]
    /\ tidx = [t \in Threads |-> 1]
    /\ worker = [t \in Threads |-> NewWorker]
    /\ built = [t \in Threads |-> NoPage]
    /\ refdefs = <<>>
    /\ pending_links = <<>>
    /\ titles = <<>>
    /\ pending_pages = <<>>
    /\ finish_count = 0
    /\ jobs = <<>>
    /\ written = <<>>
    /\ registered = {}
    /\ heading_err = {}
    /\ EvalIdle
    /\ ParseIdle
    /\ LexIdle
    /\ SlugIdle
    /\ LockIdle
    /\ VersionIdle
    /\ TocIdle

\* Worker::set_slug
SetSlugOf(w, slug) ==
    [w EXCEPT !.slug = slug, !.current_level = 0, !.has_title = FALSE, !.title = <<>>]

\* BeginFile with a parse failure that ends the thread's loop over its chunk
BeginFileAbortsChunk(t) ==
    /\ tpc[t] = "next"
    /\ tidx[t] <= Len(MyChunk(t))
    /\ LET w == SetSlugOf(worker[t], PageSlug(CurPath(t)))
       IN  IF source[CurPath(t)].ok
              THEN /\ tpc' = [tpc EXCEPT ![t] = "eval"]
                   /\ worker' = [worker EXCEPT ![t] =
                                   [w EXCEPT !.out = <<>>, !.opi = 1, !.held = <<>>]]
                   /\ tidx' = tidx
              ELSE /\ tpc' = tpc
                   /\ tidx' = [tidx EXCEPT ![t] = Len(MyChunk(t)) + 1]
                   /\ worker' = [worker EXCEPT ![t] = w]
    /\ UNCHANGED <<vvars, kvars, svars, evars, qvars, lvars, tvars, paths, source, num_cpus, mpc, refdefs, pending_links, titles,
                   pending_pages, finish_count, jobs, written, built, registered,
                   heading_err>>

\* the top of the per-path loop: worker.set_slug(slug), then Project::build_file
\* up to worker.parser.parse, whose Err skips the file
BeginFile(t) ==
    /\ tpc[t] = "next"
    /\ tidx[t] <= Len(MyChunk(t))
    /\ LET w == SetSlugOf(worker[t], PageSlug(CurPath(t)))
       IN  IF source[CurPath(t)].ok
              THEN /\ tpc' = [tpc EXCEPT ![t] = "eval"]
                   /\ worker' = [worker EXCEPT ![t] =
                                   [w EXCEPT !.out = <<>>, !.opi = 1, !.held = <<>>]]
                   /\ tidx' = tidx
              ELSE /\ tpc' = tpc
                   /\ tidx' = [tidx EXCEPT ![t] = @ + 1]
                   /\ worker' = [worker EXCEPT ![t] = w]
    /\ UNCHANGED <<vvars, kvars, svars, evars, qvars, lvars, tvars, paths, source, num_cpus, mpc, refdefs, pending_links, titles,
                   pending_pages, finish_count, jobs, written, built, registered,
                   heading_err>>

\* the end of the thread closure: the chunk is exhausted
ThreadExit(t) ==
    /\ tpc[t] = "next"
    /\ tidx[t] > Len(MyChunk(t))
    /\ tpc' = [tpc EXCEPT ![t] = "done"]
    /\ UNCHANGED <<vvars, kvars, svars, evars, qvars, lvars, tvars, paths, source, num_cpus, mpc, tidx, worker, refdefs, pending_links,
                   titles, pending_pages, finish_count, jobs, written, built,
                   registered, heading_err>>

\* Worker::evaluate of a Text child of the root concat
EvalText(t) ==
    /\ Evaluating(t)
    /\ CurOp(t).op = "text"
    /\ worker' = [worker EXCEPT ![t] = [@ EXCEPT !.out = @ \o CurOp(t).a1,
                                               !.opi = @ + 1]]
    /\ UNCHANGED <<vvars, kvars, svars, evars, qvars, lvars, tvars, paths, source, num_cpus, mpc, tpc, tidx, refdefs, pending_links,
                   titles, pending_pages, finish_count, jobs, written, built,
                   registered, heading_err>>

\* RefDefDirective::handle
EvalDefineRef(t) ==
    /\ Evaluating(t)
    /\ CurOp(t).op = "define-ref"
    /\ LET id == Flat(CurOp(t).a1)
           refdef == NewRefDef(CurOp(t).a2, worker[t].slug)
       IN  /\ refdefs' = InsertRefdef(refdefs, id, refdef)
           /\ registered' = registered \cup
                  {[refid |-> id, title |-> refdef.title, slug |-> refdef.slug]}
    /\ worker' = [worker EXCEPT ![t] = [@ EXCEPT !.opi = @ + 1]]
    /\ UNCHANGED <<vvars, kvars, svars, evars, qvars, lvars, tvars, paths, source, num_cpus, mpc, tpc, tidx, pending_links, titles,
                   pending_pages, finish_count, jobs, written, built, heading_err>>

\* Heading::handle
EvalHeading(t) ==
    /\ Evaluating(t)
    /\ CurOp(t).op = "h"
    /\ LET w == worker[t]
           arg1 == CurOp(t).a1
           explicit == CurOp(t).n = 2
           title == IF explicit THEN CurOp(t).a2 ELSE arg1
           id == IF explicit THEN arg1 ELSE TitleToId(arg1)
           refid == Flat(id)
           h == HandleHeading(CurOp(t).level, w.current_level)
           titled == IF w.has_title THEN w
                     ELSE [w EXCEPT !.has_title = TRUE, !.title = title]
       IN  /\ IF explicit
                 THEN /\ refdefs' = InsertRefdef(refdefs, refid, NewRefDef(title, w.slug))
                      /\ registered' = registered \cup
                             {[refid |-> refid, title |-> title, slug |-> w.slug]}
                 ELSE UNCHANGED <<vvars, kvars, svars, refdefs, registered>>
           /\ IF h.ok
                 THEN /\ worker' = [worker EXCEPT ![t] =
                            [titled EXCEPT !.current_level = h.level,
                                           !.out = @ \o HeadingHtml(h.prefix,
                                                      CurOp(t).level, id, title),
                                           !.opi = @ + 1]]
                      /\ heading_err' = heading_err
                 ELSE /\ worker' = [worker EXCEPT ![t] = [titled EXCEPT !.opi = @ + 1]]
                      /\ heading_err' = heading_err \cup {w.slug}
    /\ UNCHANGED <<vvars, kvars, svars, evars, qvars, lvars, tvars, paths, source, num_cpus, mpc, tpc, tidx, pending_links, titles,
                   pending_pages, finish_count, jobs, written, built>>

\* RefDirective::handle, first lock: no title argument, so a Title placeholder
EvalRefTitle(t) ==
    /\ Evaluating(t)
    /\ CurOp(t).op = "ref"
    /\ CurOp(t).n = 1
    /\ worker[t].held = <<>>
    /\ LET got == GetPlaceholder(pending_links, Flat(CurOp(t).a1), "Title")
       IN  /\ pending_links' = got.links
           /\ worker' = [worker EXCEPT ![t] = [@ EXCEPT !.held = <<got.marker>>]]
    /\ UNCHANGED <<vvars, kvars, svars, evars, qvars, lvars, tvars, paths, source, num_cpus, mpc, tpc, tidx, refdefs, titles,
                   pending_pages, finish_count, jobs, written, built, registered,
                   heading_err>>

\* RefDirective::handle, second lock: the Path placeholder and the anchor
EvalRefPath(t) ==
    /\ Evaluating(t)
    /\ CurOp(t).op = "ref"
    /\ CurOp(t).n = 2 \/ worker[t].held # <<>>
    /\ LET title == IF CurOp(t).n = 2 THEN CurOp(t).a2 ELSE worker[t].held
           got == GetPlaceholder(pending_links, Flat(CurOp(t).a1), "Path")
       IN  /\ pending_links' = got.links
           /\ worker' = [worker EXCEPT ![t] =
                            [@ EXCEPT !.out = @ \o RefHtml(got.marker, title),
                                      !.held = <<>>, !.opi = @ + 1]]
    /\ UNCHANGED <<vvars, kvars, svars, evars, qvars, lvars, tvars, paths, source, num_cpus, mpc, tpc, tidx, refdefs, titles,
                   pending_pages, finish_count, jobs, written, built, registered,
                   heading_err>>

\* Project::build_file after evaluate (close_sections, inject_paragraphs, Page),
\* then build_project's titles.lock().insert(page.slug, page.title())
BuildPage(t) ==
    /\ tpc[t] = "eval"
    /\ worker[t].opi > Len(CurOps(t))
    /\ LET w == worker[t]
           output == w.out \o CloseSections(w.current_level)
           page == [source_path |-> CurPath(t), slug |-> w.slug,
                    body |-> InjectParagraphs(output),
                    has_title |-> w.has_title, title |-> w.title]
       IN  /\ built' = [built EXCEPT ![t] = page]
           /\ titles' = [k \in DOMAIN titles \cup {SlugStr(page.slug)} |->
                           IF k = SlugStr(page.slug) THEN PageTitle(page) ELSE titles[k]]
    /\ tpc' = [tpc EXCEPT ![t] = "push"]
    /\ UNCHANGED <<vvars, kvars, svars, evars, qvars, lvars, tvars, paths, source, num_cpus, mpc, tidx, worker, refdefs, pending_links,
                   pending_pages, finish_count, jobs, written, registered, heading_err>>

\* build_project: pending_pages.lock().push(page)
PushPage(t) ==
    /\ tpc[t] = "push"
    /\ pending_pages' = Append(pending_pages, built[t])
    /\ built' = [built EXCEPT ![t] = NoPage]
    /\ tidx' = [tidx EXCEPT ![t] = @ + 1]
    /\ tpc' = [tpc EXCEPT ![t] = "next"]
    /\ UNCHANGED <<vvars, kvars, svars, evars, qvars, lvars, tvars, paths, source, num_cpus, mpc, worker, refdefs, pending_links, titles,
                   finish_count, jobs, written, registered, heading_err>>

----------------------------------------------------------------------------
\* main.rs build_project: the main thread

\* AllJoined without the wait: the main thread goes on while workers still run
AllJoinedNoWait == TRUE

\* the loop of thread.join() calls returns once every build thread has ended
AllJoined == \A t \in Threads : tpc[t] = "done"

\* chunk_size == 0 returns before anything is spawned
Start ==
    /\ mpc = "start"
    /\ mpc' = IF ChunkSize(Len(paths), num_cpus) = 0 THEN "returned" ELSE "spawn"
    /\ UNCHANGED <<vvars, kvars, svars, evars, qvars, lvars, tvars, paths, source, num_cpus, tpc, tidx, worker, refdefs, pending_links,
                   titles, pending_pages, finish_count, jobs, written, built,
                   registered, heading_err>>

\* std::thread::spawn for the next chunk
Spawn ==
    /\ mpc = "spawn"
    /\ \E t \in Threads :
          /\ tpc[t] = "unspawned"
          /\ \A u \in Threads : u < t => tpc[u] # "unspawned"
          /\ tpc' = [tpc EXCEPT ![t] = "next"]
    /\ UNCHANGED <<vvars, kvars, svars, evars, qvars, lvars, tvars, paths, source, num_cpus, mpc, tidx, worker, refdefs, pending_links,
                   titles, pending_pages, finish_count, jobs, written, built,
                   registered, heading_err>>

\* for thread in threads { thread.join() }
JoinAll ==
    /\ mpc = "spawn"
    /\ \A t \in Threads : tpc[t] # "unspawned"
    /\ AllJoined
    /\ mpc' = "finish"
    /\ UNCHANGED <<vvars, kvars, svars, evars, qvars, lvars, tvars, paths, source, num_cpus, tpc, tidx, worker, refdefs, pending_links,
                   titles, pending_pages, finish_count, jobs, written, built,
                   registered, heading_err>>

\* mem::replace of the toctree and toctree.finish(titles)
TocFinish ==
    /\ mpc = "finish"
    /\ finish_count' = finish_count + 1
    /\ mpc' = "link"
    /\ UNCHANGED <<vvars, kvars, svars, evars, qvars, lvars, tvars, paths, source, num_cpus, tpc, tidx, worker, refdefs, pending_links,
                   titles, pending_pages, jobs, written, built, registered,
                   heading_err>>

\* pool.scoped: pending_pages.drain(0..) hands every page to the pool
StartLink ==
    /\ mpc = "link"
    /\ jobs' = [i \in DOMAIN pending_pages |->
                  [page |-> pending_pages[i], state |-> "queued", result |-> "none"]]
    /\ pending_pages' = <<>>
    /\ mpc' = "linking"
    /\ UNCHANGED <<vvars, kvars, svars, evars, qvars, lvars, tvars, paths, source, num_cpus, tpc, tidx, worker, refdefs, pending_links,
                   titles, finish_count, written, built, registered, heading_err>>

\* Project::link_file inside scoped.execute: substitute, render, write the file.
\* The template renderer is external; the rendered text is the resolved body.
LinkFile(j) ==
    /\ mpc = "linking"
    /\ jobs[j].state = "queued"
    /\ LET page == jobs[j].page
           new_body == Substitute(page, pending_links, refdefs)
           output_path == OutputPath(page.slug, "build", PrettyUrl)
       IN  IF new_body.panic
               THEN /\ jobs' = [jobs EXCEPT ![j].state = "done", ![j].result = "panic"]
                    /\ written' = written
           ELSE IF ~new_body.ok
               THEN /\ jobs' = [jobs EXCEPT ![j].state = "done",
                                            ![j].result = "UndefinedReference"]
                    /\ written' = written
           ELSE /\ jobs' = [jobs EXCEPT ![j].state = "done", ![j].result = "Ok"]
                /\ written' = [k \in DOMAIN written \cup {output_path} |->
                                 IF k = output_path THEN new_body.body ELSE written[k]]
    /\ UNCHANGED <<vvars, kvars, svars, evars, qvars, lvars, tvars, paths, source, num_cpus, mpc, tpc, tidx, worker, refdefs,
                   pending_links, titles, pending_pages, finish_count, built,
                   registered, heading_err>>

\* the scoped pool joins its jobs; build_project returns
LinkDone ==
    /\ mpc = "linking"
    /\ \A j \in DOMAIN jobs : jobs[j].state = "done"
    /\ mpc' = "done"
    /\ UNCHANGED <<vvars, kvars, svars, evars, qvars, lvars, tvars, paths, source, num_cpus, tpc, tidx, worker, refdefs, pending_links,
                   titles, pending_pages, finish_count, jobs, written, built,
                   registered, heading_err>>

PNext ==
    \/ Start
    \/ Spawn
    \/ JoinAll
    \/ TocFinish
    \/ StartLink
    \/ LinkDone
    \/ \E j \in DOMAIN jobs : LinkFile(j)
    \/ \E t \in Threads :
          \/ BeginFile(t)
          \/ ThreadExit(t)
          \/ EvalText(t)
          \/ EvalDefineRef(t)
          \/ EvalHeading(t)
          \/ EvalRefTitle(t)
          \/ EvalRefPath(t)
          \/ BuildPage(t)
          \/ PushPage(t)

Spec == PInit /\ [][PNext]_vars

\* no build is running
PipelineIdle ==
    /\ paths = <<>>
    /\ source = <<>>
    /\ num_cpus = 1
    /\ mpc = "idle"
    /\ tpc = <<>>
    /\ tidx = <<>>
    /\ worker = <<>>
    /\ built = <<>>
    /\ refdefs = <<>>
    /\ pending_links = <<>>
    /\ titles = <<>>
    /\ pending_pages = <<>>
    /\ finish_count = 0
    /\ jobs = <<>>
    /\ written = <<>>
    /\ registered = {}
    /\ heading_err = {}

----------------------------------------------------------------------------
\* Claims about the build pipeline (checked under Spec)

JobPath(j) == OutputPath(jobs[j].page.slug, "build", PrettyUrl)
MarkersOf(body) == {i \in DOMAIN body : IsPlaceholder(body[i])}
LinkOf(body, i) == pending_links[ParseMarker(body[i]) + 1]
RegisteredIds == {g.refid : g \in registered}
BuildThreadsEnded == \A t \in Threads : tpc[t] = "done"

\* C1: once a page is linked, every placeholder of its body whose refid was
\* registered (by a heading or define-ref on any page, built by any thread) is
\* replaced by page.slug.path_to(slug of a page that registered it) for a Path
\* placeholder and by that registration's title for a Title placeholder; all
\* placeholders of one refid, on all pages, resolve against the same registration.
C1_RefsResolve ==
    \A r \in RegisteredIds :
        \E g \in registered :
            /\ g.refid = r
            /\ \A j \in DOMAIN jobs :
                  jobs[j].state = "done" =>
                      /\ jobs[j].result = "Ok"
                      /\ JobPath(j) \in DOMAIN written
                      /\ Len(written[JobPath(j)]) = Len(jobs[j].page.body)
                      /\ \A i \in MarkersOf(jobs[j].page.body) :
                            LinkOf(jobs[j].page.body, i).refid = r =>
                                written[JobPath(j)][i] =
                                    IF LinkOf(jobs[j].page.body, i).action = "Path"
                                        THEN PathTo(jobs[j].page.slug, SlugStr(g.slug), TRUE)
                                        ELSE Flat(g.title)

\* C1 witness: the build is over and a linked page carries a Title and a Path
\* placeholder for a refid that a page built by another thread registered
C1_Witness ==
    /\ mpc = "done"
    /\ Cardinality(Threads) >= 2
    /\ \E j \in DOMAIN jobs, g \in registered :
          /\ g.slug # jobs[j].page.slug
          /\ \E i, k \in MarkersOf(jobs[j].page.body) :
                /\ LinkOf(jobs[j].page.body, i) = [action |-> "Path", refid |-> g.refid]
                /\ LinkOf(jobs[j].page.body, k) = [action |-> "Title", refid |-> g.refid]

\* C3: toctree.finish runs at most once and only when every build thread has
\* ended; link jobs exist only after finish has run (once) and all threads ended.
C3_JoinBarrier ==
    /\ finish_count <= 1
    /\ finish_count = 1 => BuildThreadsEnded
    /\ (jobs # <<>> \/ written # <<>> \/ mpc \in {"link", "linking", "done"}) =>
          finish_count = 1 /\ BuildThreadsEnded

\* C3 witness: a page has been linked after two build threads ended
C3_Witness ==
    /\ Cardinality(Threads) >= 2
    /\ finish_count = 1
    /\ \E j \in DOMAIN jobs : jobs[j].state = "done"

\* C5 as claimed: a page whose body holds a placeholder for a refid no page
\* registered fails to link with an undefined-reference error and is not written.
C5_UndefinedReferenceFails ==
    \A j \in DOMAIN jobs :
        (/\ jobs[j].state = "done"
         /\ \E i \in MarkersOf(jobs[j].page.body) :
               LinkOf(jobs[j].page.body, i).refid \notin RegisteredIds)
        => /\ jobs[j].result = "UndefinedReference"
           /\ JobPath(j) \notin DOMAIN written

\* C7 as claimed: a page on which a heading skipped a level yields no Page: it is
\* neither queued for linking nor written.
C7_HeadingJumpFatal ==
    \A s \in heading_err :
        /\ \A i \in DOMAIN pending_pages : pending_pages[i].slug # s
        /\ \A j \in DOMAIN jobs : jobs[j].page.slug # s
        /\ OutputPath(s, "build", PrettyUrl) \notin DOMAIN written

----------------------------------------------------------------------------
\* parse.rs Node, evaluator.rs Worker::evaluate and the directives it reaches

MaxProgram == 3
MaxDepth == 6

\* Node::new_string
NodeString(v) == [t |-> "s", v |-> v]
\* Node::new_children
NodeChildren(c) == [t |-> "b", c |-> c]

\* HashMap::insert and HashMap::remove on the worker's ctx
CtxInsert(ctx, key, value) ==
    [k \in DOMAIN ctx \cup {key} |-> IF k = key THEN value ELSE ctx[k]]
CtxRemove(ctx, key) == [k \in DOMAIN ctx \ {key} |-> ctx[k]]

\* the names register_prelude is called with that this model covers
PreludeNames == {"concat", "let", "define", "define-ref", "ref", "h1", "h2", "h3", "if"}

\* Result<String, ()> of a handler, with the Worker it leaves
Ok(w, out) == [ok |-> TRUE, w |-> w, out |-> out]
Err(w) == [ok |-> FALSE, w |-> w, out |-> <<>>]

\* the message of evaluate's Err arm put into the output instead of the log
MatchLookupLeaksMessage(r) ==
    IF r.ok THEN [w |-> r.w, out |-> r.out, err |-> FALSE]
    ELSE [w |-> r.w, out |-> <<"Error evaluating node">>, err |-> TRUE]

\* evaluate's match on the result of lookup: Ok(s) => s, Err => String::new()
MatchLookup(r) ==
    IF r.ok THEN [w |-> r.w, out |-> r.out, err |-> FALSE]
    ELSE [w |-> r.w, out |-> <<>>, err |-> TRUE]

RECURSIVE Eval(_, _, _)
RECURSIVE Lookup(_, _, _, _)
RECURSIVE ConsumeString(_, _, _)
RECURSIVE ConcatFrom(_, _, _, _, _)
RECURSIVE LetBind(_, _, _, _)
RECURSIVE LetRestore(_, _)
RECURSIVE Handle(_, _, _, _)
RECURSIVE RootOutput(_)

\* consume_string: the next argument, evaluated if it is a Block
ConsumeString(w, args, fuel) ==
    IF args = <<>>
        THEN [some |-> FALSE, w |-> w, out |-> <<>>, rest |-> <<>>]
    ELSE IF Head(args).t = "s"
        THEN [some |-> TRUE, w |-> w, out |-> Head(args).v, rest |-> Tail(args)]
    ELSE LET r == Eval(w, Head(args), fuel - 1)
         IN  [some |-> TRUE, w |-> r.w, out |-> r.out, rest |-> Tail(args)]

\* concat_nodes: evaluate each node in order, folding with sep
ConcatFrom(w, args, sep, acc, fuel) ==
    IF args = <<>> THEN [w |-> w, out |-> acc]
    ELSE LET r == Eval(w, Head(args), fuel - 1)
         IN  ConcatFrom(r.w, Tail(args), sep,
                        IF acc = <<>> THEN r.out ELSE acc \o sep \o r.out, fuel)

ConcatNodes(w, args, sep, fuel) == ConcatFrom(w, args, sep, <<>>, fuel)

RECURSIVE LetBindDeferred(_, _, _, _)
\* the loop of Let::handle binding each value expression unevaluated
LetBindDeferred(w, kvs, variables, fuel) ==
    IF kvs = <<>> THEN [w |-> w, variables |-> variables]
    ELSE LET k == Eval(w, kvs[1], fuel - 1)
             evaluated_key == Flat(k.out)
             occupied == evaluated_key \in DOMAIN k.w.ctx
             original == [key |-> evaluated_key, some |-> occupied,
                          value |-> IF occupied THEN k.w.ctx[evaluated_key]
                                    ELSE NodeString(<<>>)]
             bound == [k.w EXCEPT !.ctx = CtxInsert(@, evaluated_key, kvs[2])]
         IN  LetBindDeferred(bound, SubSeq(kvs, 3, Len(kvs)), Append(variables, original),
                             fuel)

\* Let::handle, the loop over children.chunks(2): bind each pair, remember the original
LetBind(w, kvs, variables, fuel) ==
    IF kvs = <<>> THEN [w |-> w, variables |-> variables]
    ELSE LET k == Eval(w, kvs[1], fuel - 1)
             v == Eval(k.w, kvs[2], fuel - 1)
             evaluated_key == Flat(k.out)
             occupied == evaluated_key \in DOMAIN v.w.ctx
             original == [key |-> evaluated_key, some |-> occupied,
                          value |-> IF occupied THEN v.w.ctx[evaluated_key]
                                    ELSE NodeString(<<>>)]
             bound == [v.w EXCEPT !.ctx = CtxInsert(@, evaluated_key, NodeString(v.out))]
         IN  LetBind(bound, SubSeq(kvs, 3, Len(kvs)), Append(variables, original), fuel)

\* Let::handle, the loop "for (key, original_value) in variables"
LetRestore(ctx, variables) ==
    IF variables = <<>> THEN ctx
    ELSE LetRestore(IF Head(variables).some
                        THEN CtxInsert(ctx, Head(variables).key, Head(variables).value)
                        ELSE CtxRemove(ctx, Head(variables).key),
                    Tail(variables))

\* Let::handle
LetHandle(w, args, fuel) ==
    IF Len(args) < 1 THEN Err(w)
    ELSE IF args[1].t = "s" THEN Err(w)
    ELSE IF Len(args[1].c) % 2 # 0 THEN Err(w)
    ELSE LET b == LetBind(w, args[1].c, <<>>, fuel)
             result == ConcatNodes(b.w, Tail(args), <<>>, fuel)
         IN  Ok([result.w EXCEPT !.ctx = LetRestore(@, b.variables)], result.out)

\* Define::handle with the evaluate form storing the expression node unevaluated
DefineHandleDeferred(w, args, fuel) ==
    LET arg1 == ConsumeString(w, args, fuel)
    IN  IF ~arg1.some THEN Err(arg1.w)
        ELSE IF Len(arg1.rest) < 1 \/ Len(arg1.rest) > 2 THEN Err(arg1.w)
        ELSE IF Len(arg1.rest) = 2
            THEN IF Flat(arg1.out) # "evaluate" THEN Err(arg1.w)
                 ELSE LET key == Eval(arg1.w, arg1.rest[1], fuel - 1)
                      IN  Ok([key.w EXCEPT !.ctx =
                                 CtxInsert(@, Flat(key.out), arg1.rest[2])], <<>>)
        ELSE Ok([arg1.w EXCEPT !.ctx = CtxInsert(@, Flat(arg1.out), arg1.rest[1])], <<>>)

\* Define::handle
DefineHandle(w, args, fuel) ==
    LET arg1 == ConsumeString(w, args, fuel)
    IN  IF ~arg1.some THEN Err(arg1.w)
        ELSE IF Len(arg1.rest) < 1 \/ Len(arg1.rest) > 2 THEN Err(arg1.w)
        ELSE IF Len(arg1.rest) = 2
            THEN IF Flat(arg1.out) # "evaluate" THEN Err(arg1.w)
                 ELSE LET key == Eval(arg1.w, arg1.rest[1], fuel - 1)
                          evaluated == Eval(key.w, arg1.rest[2], fuel - 1)
                      IN  Ok([evaluated.w EXCEPT !.ctx =
                                 CtxInsert(@, Flat(key.out), NodeString(evaluated.out))],
                             <<>>)
        ELSE Ok([arg1.w EXCEPT !.ctx = CtxInsert(@, Flat(arg1.out), arg1.rest[1])], <<>>)

\* Heading::handle registering a RefDef under the derived id as well
HeadingHandleRegistersDerived(level, w, args, fuel) ==
    LET arg1 == ConsumeString(w, args, fuel)
        arg2 == ConsumeString(arg1.w, arg1.rest, fuel)
        title == IF arg2.some THEN arg2.out ELSE arg1.out
        id == IF arg2.some THEN arg1.out ELSE TitleToId(arg1.out)
        w1 == [arg2.w EXCEPT !.refdefs =
                  InsertRefdef(@, Flat(id), NewRefDef(title, arg2.w.slug))]
        w2 == IF w1.has_title THEN w1 ELSE [w1 EXCEPT !.has_title = TRUE, !.title = title]
        h == HandleHeading(level, w2.current_level)
    IN  IF ~arg1.some THEN Err(arg1.w)
        ELSE IF h.ok
            THEN Ok([w2 EXCEPT !.current_level = h.level],
                    HeadingHtml(h.prefix, level, id, title))
        ELSE Err(w2)

\* Heading::handle
HeadingHandle(level, w, args, fuel) ==
    LET arg1 == ConsumeString(w, args, fuel)
        arg2 == ConsumeString(arg1.w, arg1.rest, fuel)
        title == IF arg2.some THEN arg2.out ELSE arg1.out
        id == IF arg2.some THEN arg1.out ELSE TitleToId(arg1.out)
        w1 == IF arg2.some
                 THEN [arg2.w EXCEPT !.refdefs =
                          InsertRefdef(@, Flat(arg1.out), NewRefDef(title, arg2.w.slug))]
                 ELSE arg2.w
        w2 == IF w1.has_title THEN w1 ELSE [w1 EXCEPT !.has_title = TRUE, !.title = title]
        h == HandleHeading(level, w2.current_level)
    IN  IF ~arg1.some THEN Err(arg1.w)
        ELSE IF h.ok
            THEN Ok([w2 EXCEPT !.current_level = h.level],
                    HeadingHtml(h.prefix, level, id, title))
        ELSE Err(w2)

\* RefDefDirective::handle
RefDefHandle(w, args, fuel) ==
    LET id == ConsumeString(w, args, fuel)
        title == ConsumeString(id.w, id.rest, fuel)
    IN  IF ~id.some THEN Err(id.w)
        ELSE IF ~title.some THEN Err(title.w)
        ELSE Ok([title.w EXCEPT !.refdefs =
                    InsertRefdef(@, Flat(id.out), NewRefDef(title.out, title.w.slug))],
                <<>>)

\* RefDirective::handle
RefHandle(w, args, fuel) ==
    LET refid == ConsumeString(w, args, fuel)
        arg2 == ConsumeString(refid.w, refid.rest, fuel)
        t == GetPlaceholder(arg2.w.pending_links, Flat(refid.out), "Title")
        links == IF arg2.some THEN arg2.w.pending_links ELSE t.links
        title == IF arg2.some THEN arg2.out ELSE <<t.marker>>
        p == GetPlaceholder(links, Flat(refid.out), "Path")
    IN  IF ~refid.some THEN Err(refid.w)
        ELSE Ok([arg2.w EXCEPT !.pending_links = p.links], RefHtml(p.marker, title))

\* If::handle evaluating both branches and returning the selected one's text
IfHandleEvaluatesBoth(w, args, fuel) ==
    LET condition == ConsumeString(w, args, fuel)
    IN  IF ~condition.some THEN Err(condition.w)
        ELSE IF Len(condition.rest) < 1 \/ Len(condition.rest) > 2 THEN Err(condition.w)
        ELSE LET if_true == Eval(condition.w, condition.rest[1], fuel - 1)
                 if_false == IF Len(condition.rest) = 2
                                 THEN Eval(if_true.w, condition.rest[2], fuel - 1)
                                 ELSE [w |-> if_true.w, out |-> <<>>, err |-> FALSE]
             IN  IF Flat(condition.out) = "" THEN Ok(if_false.w, if_false.out)
                 ELSE Ok(if_false.w, if_true.out)

\* If::handle
IfHandle(w, args, fuel) ==
    LET condition == ConsumeString(w, args, fuel)
    IN  IF ~condition.some THEN Err(condition.w)
        ELSE IF Len(condition.rest) < 1 \/ Len(condition.rest) > 2 THEN Err(condition.w)
        ELSE IF Flat(condition.out) = ""
            THEN IF Len(condition.rest) = 2
                     THEN LET r == Eval(condition.w, condition.rest[2], fuel - 1)
                          IN  Ok(r.w, r.out)
                     ELSE Ok(condition.w, <<>>)
        ELSE LET r == Eval(condition.w, condition.rest[1], fuel - 1)
             IN  Ok(r.w, r.out)

\* handler.handle(self, args) for the prelude directive registered as key
Handle(key, w, args, fuel) ==
    CASE key = "concat" ->
            LET r == ConcatNodes(w, args, <<>>, fuel) IN Ok(r.w, r.out)
      [] key = "let" -> LetHandle(w, args, fuel)
      [] key = "define" -> DefineHandle(w, args, fuel)
      [] key = "define-ref" -> RefDefHandle(w, args, fuel)
      [] key = "ref" -> RefHandle(w, args, fuel)
      [] key = "h1" -> HeadingHandle(1, w, args, fuel)
      [] key = "h2" -> HeadingHandle(2, w, args, fuel)
      [] key = "h3" -> HeadingHandle(3, w, args, fuel)
      [] key = "if" -> IfHandle(w, args, fuel)

\* Worker::lookup with the two maps asked in the other order
LookupPreludeFirst(w, key, args, fuel) ==
    IF key \in PreludeNames THEN Handle(key, w, args, fuel)
    ELSE IF key \in DOMAIN w.ctx
        THEN LET r == Eval(w, w.ctx[key], fuel - 1) IN Ok(r.w, r.out)
    ELSE Err(w)

\* Worker::lookup: the local ctx first, then the prelude, else Err
Lookup(w, key, args, fuel) ==
    IF key \in DOMAIN w.ctx
        THEN LET r == Eval(w, w.ctx[key], fuel - 1) IN Ok(r.w, r.out)
    ELSE IF key \in PreludeNames THEN Handle(key, w, args, fuel)
    ELSE Err(w)

\* Worker::evaluate; fuel stands for the call stack left, and running out of it
\* is recorded in the Worker
Eval(w, node, fuel) ==
    IF fuel <= 0 THEN [w |-> [w EXCEPT !.overflow = TRUE], out |-> <<>>, err |-> FALSE]
    ELSE IF node.t = "s" THEN [w |-> w, out |-> node.v, err |-> FALSE]
    ELSE IF node.c = <<>> THEN [w |-> w, out |-> <<>>, err |-> FALSE]
    ELSE LET first_element == node.c[1]
             directive_name ==
                 IF first_element.t = "s"
                     THEN [w |-> w, out |-> first_element.v]
                     ELSE Eval(w, first_element, fuel - 1)
         IN  MatchLookup(Lookup(directive_name.w, Flat(directive_name.out),
                                Tail(node.c), fuel))

\* the source text of the root's children the pages are built from
Word(x) == NodeString(<<x>>)
Block1(name) == NodeChildren(<<Word(name)>>)
Block2(name, a) == NodeChildren(<<Word(name), a>>)
Block3(name, a, b) == NodeChildren(<<Word(name), a, b>>)

Items == {
    Word("x"),                                                  \* x
    Block2("h1", Word("T")),                                    \* (:h1 T:)
    Block2("h2", Word("s")),                                    \* (:h2 s:)
    Block2("h3", Word("u")),                                    \* (:h3 u:)
    NodeChildren(<<Word("concat"), Block2("h1", Word("a")),     \* (:concat (:h1 a:)
                   Block2("h2", Word("b")),                     \*   (:h2 b:)
                   Block2("h3", Word("c"))>>),                  \*   (:h3 c:):)
    Block1("nope"),                                             \* (:nope:)
    Block2("h3", Block2("ref", Word("q"))),                     \* (:h3 (:ref q:):)
    Block2("h3", Block2("h1", Word("T"))),                      \* (:h3 (:h1 T:):)
    Block3("define", Word("k"), Word("v")),                     \* (:define k v:)
    Block1("k"),                                                \* (:k:)
    Block3("let", NodeChildren(<<Word("k"), Word("1"),          \* (:let (k 1 k 2)
                                 Word("k"), Word("2")>>),       \*   (:k:):)
           Block1("k")),
    NodeChildren(<<Word("let"),                                 \* (:let (k 1)
                   NodeChildren(<<Word("k"), Word("1")>>),      \*   (:define k w:)
                   Block3("define", Word("k"), Word("w")),      \*   (:k:):)
                   Block1("k")>>),
    Block2("ref", Word("q"))                                    \* (:ref q:)
}

Programs == UNION {[1..n -> Items] : n \in 0..MaxProgram}

\* Worker::new followed by set_slug
EvalWorker ==
    [slug |-> IndexSlug, current_level |-> 0, ctx |-> <<>>, has_title |-> FALSE,
     title |-> <<>>, refdefs |-> <<>>, pending_links |-> <<>>, overflow |-> FALSE]

EInit ==
    /\ program \in Programs
    /\ epos = 1
    /\ ew = EvalWorker
    /\ etrace = <<>>
    /\ epc = "eval"
    /\ eoutput = <<>>
    /\ PipelineIdle
    /\ ParseIdle
    /\ LexIdle
    /\ SlugIdle
    /\ LockIdle
    /\ VersionIdle
    /\ TocIdle

Traced(pre, r) == [pre |-> pre, post |-> r.w, out |-> r.out, err |-> r.err]

\* concat_nodes on the root: worker.evaluate of a Text child
EvalOwned ==
    /\ epc = "eval"
    /\ epos <= Len(program)
    /\ program[epos].t = "s"
    /\ LET r == Eval(ew, program[epos], MaxDepth)
       IN  /\ ew' = r.w
           /\ etrace' = Append(etrace, Traced(ew, r))
    /\ epos' = epos + 1
    /\ UNCHANGED <<vvars, kvars, svars, pvars, qvars, lvars, tvars, program, epc, eoutput>>

\* concat_nodes on the root: worker.evaluate of a Block child
EvalBlock ==
    /\ epc = "eval"
    /\ epos <= Len(program)
    /\ program[epos].t = "b"
    /\ LET r == Eval(ew, program[epos], MaxDepth)
       IN  /\ ew' = r.w
           /\ etrace' = Append(etrace, Traced(ew, r))
    /\ epos' = epos + 1
    /\ UNCHANGED <<vvars, kvars, svars, pvars, qvars, lvars, tvars, program, epc, eoutput>>

\* the concatenation concat_nodes returns for the root (the separator is "")
RootOutput(trace) ==
    IF trace = <<>> THEN <<>>
    ELSE RootOutput(SubSeq(trace, 1, Len(trace) - 1)) \o trace[Len(trace)].out

\* build_file after evaluate: close_sections, inject_paragraphs
EvalFinish ==
    /\ epc = "eval"
    /\ epos > Len(program)
    /\ eoutput' = InjectParagraphs(RootOutput(etrace) \o CloseSections(ew.current_level))
    /\ epc' = "done"
    /\ UNCHANGED <<vvars, kvars, svars, pvars, qvars, lvars, tvars, program, epos, ew, etrace>>

ENext == EvalOwned \/ EvalBlock \/ EvalFinish

SpecEval == EInit /\ [][ENext]_vars

----------------------------------------------------------------------------
\* Claims about evaluation (checked under SpecEval)

\* the child is the block (:name ...:) and name is not shadowed in the ctx it met
Calls(i, name) ==
    /\ program[i].t = "b"
    /\ program[i].c # <<>>
    /\ program[i].c[1] = Word(name)
    /\ name \notin DOMAIN etrace[i].pre.ctx

\* a let whose binding list is a Block of even length
IsLetCall(i) ==
    /\ Calls(i, "let")
    /\ Len(program[i].c) >= 2
    /\ program[i].c[2].t = "b"
    /\ Len(program[i].c[2].c) % 2 = 0

\* the keys named in the binding list (written as plain words in Items)
LetKeys(node) ==
    {Flat(node.c[2].c[2 * n - 1].v) : n \in 1..(Len(node.c[2].c) \div 2)}

SameBinding(c1, c2, k) ==
    \/ k \notin DOMAIN c1 /\ k \notin DOMAIN c2
    \/ k \in DOMAIN c1 /\ k \in DOMAIN c2 /\ c1[k] = c2[k]

\* C2 as claimed: after a let returns, every key of its binding list is bound in
\* the ctx exactly as before the let: restored if it was bound, absent if not.
C2_LetRestoresBindings ==
    \A i \in DOMAIN etrace :
        IsLetCall(i) =>
            \A k \in LetKeys(program[i]) :
                SameBinding(etrace[i].pre.ctx, etrace[i].post.ctx, k)

\* a heading directive of level L applied to one plain title
IsHeadingCall(i, L) ==
    /\ Calls(i, "h" \o Dec(L))
    /\ Len(program[i].c) = 2
    /\ program[i].c[2].t = "s"

Openers(out) == Count(out, "<section>")
Closers(out) == Count(out, "</section>")

\* C6: a page starts at nesting level 0; a heading of level L met at level C emits
\* one <section> if L = C+1, no section tag if L = C, exactly C-L </section> if
\* L < C, each before the <hL> element, and then the level is L; if L > C+1 the
\* heading is an error that emits nothing and leaves the level at C.
C6_HeadingNesting ==
    /\ etrace # <<>> => etrace[1].pre.current_level = 0
    /\ \A i \in DOMAIN etrace : \A L \in 1..3 :
          IsHeadingCall(i, L) =>
              LET C == etrace[i].pre.current_level
                  out == etrace[i].out
              IN  IF L > C + 1
                      THEN /\ etrace[i].err
                           /\ out = <<>>
                           /\ etrace[i].post.current_level = C
                      ELSE /\ ~etrace[i].err
                           /\ etrace[i].post.current_level = L
                           /\ Openers(out) = (IF L = C + 1 THEN 1 ELSE 0)
                           /\ Closers(out) = (IF L < C THEN C - L ELSE 0)
                           /\ out[Openers(out) + Closers(out) + 1] = "<h" \o Dec(L)

\* C6 witness: one page had a heading rejected for skipping a level and a heading
\* that closed two sections
C6_Witness ==
    /\ epc = "done"
    /\ \E i, j \in DOMAIN etrace : \E L, M \in 1..3 :
          /\ IsHeadingCall(i, L) /\ L > etrace[i].pre.current_level + 1
          /\ IsHeadingCall(j, M) /\ etrace[j].pre.current_level - M = 2

RemoveAt(seq, i) == SubSeq(seq, 1, i - 1) \o SubSeq(seq, i + 1, Len(seq))

RECURSIVE OutputsFrom(_, _)
\* the outputs of the children of prog, evaluated in order from Worker w
OutputsFrom(w, prog) ==
    IF prog = <<>> THEN <<>>
    ELSE LET r == Eval(w, Head(prog), MaxDepth)
         IN  <<r.out>> \o OutputsFrom(r.w, Tail(prog))

\* every sibling of child i put out what it puts out when child i is absent
SiblingsAsIfAbsent(i) ==
    LET absent == OutputsFrom(EvalWorker, RemoveAt(program, i))
    IN  \A j \in DOMAIN etrace :
            /\ j < i => etrace[j].out = absent[j]
            /\ j > i => etrace[j].out = absent[j - 1]

----------------------------------------------------------------------------
\* The token stream (lex::Token as parse.rs matches it) and the stack parser

MaxInput == 4
\* the two colon depths the source texts use: "(:" and "(::::"
ShallowDepth == 0
DeepDepth == 3
\* the indentation widths the source texts use
IndentWidths == {0, 2}

\* the lexemes of a source text, by class: s is the text matched, n the colon
\* depth of a delimiter or the number of spaces after a newline
TextLexeme(s) == [c |-> "text", s |-> s, n |-> 0]
QuoteLexeme == [c |-> "quote", s |-> "\"", n |-> 0]
ArrowLexeme == [c |-> "arrow", s |-> "=>", n |-> 0]
NewlineLexeme(n) == [c |-> "newline", s |-> Flat(<<"\n">> \o Repeat(" ", n)), n |-> n]
OpenLexeme(d) == [c |-> "open", s |-> Flat(<<"(">> \o Repeat(":", d + 1)), n |-> d]
CloseLexeme(d) == [c |-> "close", s |-> Flat(Repeat(":", d + 1) \o <<")">>), n |-> d]

Lexemes ==
    {TextLexeme("a"), TextLexeme(" "), QuoteLexeme, ArrowLexeme}
        \cup {NewlineLexeme(n) : n \in IndentWidths}
        \cup {OpenLexeme(d) : d \in {ShallowDepth, DeepDepth}}
        \cup {CloseLexeme(d) : d \in {ShallowDepth, DeepDepth}}

Inputs == UNION {[1..n -> Lexemes] : n \in 0..MaxInput}

\* lex::Token
TokenText(lineno, s) == [k |-> "Text", line |-> lineno, depth |-> 0, s |-> s]
TokenQuote(lineno) == [k |-> "Quote", line |-> lineno, depth |-> 0, s |-> ""]
TokenStartBlock(lineno, colon_depth) ==
    [k |-> "StartBlock", line |-> lineno, depth |-> colon_depth, s |-> ""]
TokenRightParen(colon_depth) ==
    [k |-> "RightParen", line |-> 0, depth |-> colon_depth, s |-> ""]
TokenRocket(lineno) == [k |-> "Rocket", line |-> lineno, depth |-> 0, s |-> ""]
TokenDedent == [k |-> "Dedent", line |-> 0, depth |-> 0, s |-> ""]

RECURSIVE Unwind(_, _)
\* the indentation stack after popping every level deeper than the new line
Unwind(indent, new_level) ==
    IF new_level < indent[Len(indent)]
        THEN Unwind(SubSeq(indent, 1, Len(indent) - 1), new_level)
        ELSE indent

RECURSIVE LexFrom(_, _, _, _, _, _)
\* the lexer's loop over the matches, then one dedent per level still open
LexFrom(input, i, lineno, indent, start_rocket, tokens) ==
    IF i > Len(input)
        THEN tokens \o Repeat(TokenDedent, Len(indent) - 1)
    ELSE LET m == input[i]
             before_newline == i < Len(input) /\ input[i + 1].c = "newline"
         IN  CASE m.c = "text" ->
                     LexFrom(input, i + 1, lineno, indent, start_rocket,
                             Append(tokens, TokenText(lineno, m.s)))
               [] m.c = "quote" ->
                     LexFrom(input, i + 1, lineno, indent, start_rocket,
                             Append(tokens, TokenQuote(lineno)))
               [] m.c = "open" ->
                     LexFrom(input, i + 1, lineno, indent, start_rocket,
                             Append(tokens, TokenStartBlock(lineno, m.n)))
               [] m.c = "close" ->
                     LexFrom(input, i + 1, lineno, indent, start_rocket,
                             Append(tokens, TokenRightParen(m.n)))
               [] m.c = "arrow" ->
                     IF before_newline
                         THEN LexFrom(input, i + 1, lineno, indent, TRUE,
                                      Append(tokens, TokenRocket(lineno)))
                         ELSE LexFrom(input, i + 1, lineno, indent, start_rocket,
                                      Append(tokens, TokenText(lineno, m.s)))
               [] m.c = "newline" ->
                     LET nl == Append(tokens, TokenText(lineno, "\n"))
                         unwound == Unwind(indent, m.n)
                         current == unwound[Len(unwound)]
                         dedents == Repeat(TokenDedent, Len(indent) - Len(unwound))
                     IN  IF before_newline
                             THEN LexFrom(input, i + 1, lineno + 1, indent,
                                          start_rocket, nl)
                         ELSE IF start_rocket
                             THEN LexFrom(input, i + 1, lineno + 1,
                                          Append(unwound, m.n), FALSE, nl \o dedents)
                         ELSE IF m.n > current
                             THEN LexFrom(input, i + 1, lineno + 1, unwound, FALSE,
                                          nl \o dedents \o
                                          <<TokenText(lineno,
                                                      Flat(Repeat(" ", m.n - current)))>>)
                         ELSE LexFrom(input, i + 1, lineno + 1, unwound, FALSE,
                                      nl \o dedents)

\* lex(data)
Lex(input) == LexFrom(input, 1, 0, <<0>>, FALSE, <<>>)

\* push_end_expression_string writing one colon too few
PushEndExpressionStringShort(s, colon_depth) ==
    s \o Flat(Repeat(":", colon_depth)) \o ")"

\* push_start_expression_string
PushStartExpressionString(s, colon_depth) ==
    CASE colon_depth = 0 -> s \o "(:"
      [] colon_depth = 1 -> s \o "(::"
      [] colon_depth = 2 -> s \o "(:::"
      [] OTHER -> s \o "(" \o Flat(Repeat(":", colon_depth + 1))

\* push_end_expression_string
PushEndExpressionString(s, colon_depth) ==
    CASE colon_depth = 0 -> s \o ":)"
      [] colon_depth = 1 -> s \o "::)"
      [] colon_depth = 2 -> s \o ":::)"
      [] OTHER -> s \o Flat(Repeat(":", colon_depth + 1)) \o ")"

\* PAT_IS_WHITESPACE: ^\s+$
IsWhitespace(s) ==
    \/ s = " "
    \/ \E n \in IndentWidths : s = Flat(Repeat(" ", n)) /\ n > 0
    \/ s = "\n"

\* StateRocket::new; opened_at remembers the index of the token that opened it
NewStateRocket(colon_depth, lineno, at) ==
    [kind |-> "rocket", colon_depth |-> colon_depth, root |-> <<Word("concat")>>,
     buffer |-> <<>>, lineno |-> lineno, quote |-> <<>>, quote_should_merge |-> FALSE,
     in_quote |-> FALSE, new_node |-> FALSE, opened_at |-> at]

\* StateExpression::new
NewStateExpression(colon_depth, lineno, at) ==
    [kind |-> "expression", colon_depth |-> colon_depth, root |-> <<>>,
     buffer |-> <<>>, lineno |-> lineno, quote |-> <<>>, quote_should_merge |-> FALSE,
     in_quote |-> FALSE, new_node |-> TRUE, opened_at |-> at]

\* StackRequest
RequestNone == [t |-> "None", n |-> 0, handler |-> <<>>]
RequestPop(n) == [t |-> "Pop", n |-> n, handler |-> <<>>]
RequestPush(handler) == [t |-> "Push", n |-> 0, handler |-> handler]

\* ensure_string starting a fresh buffer for x
EnsureStringPushFresh(buffer, x) == <<x>>

\* ensure_string().push_str(x): x goes to the end of the buffer's last string
EnsureStringPush(buffer, x) ==
    IF buffer = <<>> THEN <<x>>
    ELSE [buffer EXCEPT ![Len(buffer)] = @ \o x]

\* StateRocket::handle_token comparing with <= : a block-open of the rocket's own
\* depth is text
RocketHandleTokenInclusive(h, token, at) ==
    CASE token.k = "Text" ->
            [h |-> [h EXCEPT !.buffer = Append(@, token.s)], req |-> RequestNone]
      [] token.k = "Quote" ->
            [h |-> [h EXCEPT !.buffer = EnsureStringPush(@, "\"")], req |-> RequestNone]
      [] token.k = "StartBlock" ->
            IF token.depth <= h.colon_depth
                THEN [h |-> [h EXCEPT !.buffer =
                                 IF @ = <<>>
                                     THEN <<PushStartExpressionString("", token.depth)>>
                                     ELSE [@ EXCEPT ![Len(@)] =
                                              PushStartExpressionString(@, token.depth)]],
                      req |-> RequestNone]
                ELSE [h |-> [h EXCEPT !.root = IF h.buffer # <<>>
                                                   THEN Append(@, NodeString(h.buffer))
                                                   ELSE @,
                                      !.buffer = <<>>],
                      req |-> RequestPush(NewStateExpression(token.depth, token.line, at))]
      [] token.k = "RightParen" ->
            [h |-> [h EXCEPT !.buffer =
                       IF @ = <<>>
                           THEN <<PushEndExpressionString("", token.depth)>>
                           ELSE [@ EXCEPT ![Len(@)] =
                                    PushEndExpressionString(@, token.depth)]],
             req |-> RequestNone]
      [] token.k = "Rocket" ->
            [h |-> [h EXCEPT !.buffer = EnsureStringPush(@, "=>")], req |-> RequestNone]
      [] token.k = "Dedent" -> [h |-> h, req |-> RequestPop(2)]

\* StateRocket::handle_token
RocketHandleToken(h, token, at) ==
    CASE token.k = "Text" ->
            [h |-> [h EXCEPT !.buffer = Append(@, token.s)], req |-> RequestNone]
      [] token.k = "Quote" ->
            [h |-> [h EXCEPT !.buffer = EnsureStringPush(@, "\"")], req |-> RequestNone]
      [] token.k = "StartBlock" ->
            IF token.depth < h.colon_depth
                THEN [h |-> [h EXCEPT !.buffer =
                                 IF @ = <<>>
                                     THEN <<PushStartExpressionString("", token.depth)>>
                                     ELSE [@ EXCEPT ![Len(@)] =
                                              PushStartExpressionString(@, token.depth)]],
                      req |-> RequestNone]
                ELSE [h |-> [h EXCEPT !.root = IF h.buffer # <<>>
                                                   THEN Append(@, NodeString(h.buffer))
                                                   ELSE @,
                                      !.buffer = <<>>],
                      req |-> RequestPush(NewStateExpression(token.depth, token.line, at))]
      [] token.k = "RightParen" ->
            [h |-> [h EXCEPT !.buffer =
                       IF @ = <<>>
                           THEN <<PushEndExpressionString("", token.depth)>>
                           ELSE [@ EXCEPT ![Len(@)] =
                                    PushEndExpressionString(@, token.depth)]],
             req |-> RequestNone]
      [] token.k = "Rocket" ->
            [h |-> [h EXCEPT !.buffer = EnsureStringPush(@, "=>")], req |-> RequestNone]
      [] token.k = "Dedent" -> [h |-> h, req |-> RequestPop(2)]

\* StateExpression::add_text
AddText(h, s) ==
    LET last_owned == h.root # <<>> /\ h.root[Len(h.root)].t = "s"
        new_node == h.new_node \/ ~last_owned
    IN  [h EXCEPT !.quote_should_merge = TRUE,
                  !.root = IF new_node
                               THEN Append(@, NodeString(<<s>>))
                               ELSE [@ EXCEPT ![Len(@)] = NodeString(Append(@.v, s))],
                  !.new_node = FALSE]

\* StateExpression::handle_token, the arm "if self.in_quote"
QuotedHandleToken(h, token) ==
    CASE token.k = "Text" -> [h EXCEPT !.quote = Append(@, token.s)]
      [] token.k = "Quote" ->
            LET merges == /\ h.quote_should_merge
                          /\ h.root # <<>>
                          /\ h.root[Len(h.root)].t = "s"
            IN  [h EXCEPT !.root = IF merges
                                       THEN [@ EXCEPT ![Len(@)] =
                                                NodeString(@.v \o h.quote)]
                                       ELSE Append(@, NodeString(h.quote)),
                          !.quote_should_merge = FALSE,
                          !.in_quote = FALSE,
                          !.quote = <<>>]
      [] token.k = "StartBlock" ->
            [h EXCEPT !.quote = Append(@, PushStartExpressionString("", token.depth))]
      [] token.k = "RightParen" ->
            [h EXCEPT !.quote = Append(@, PushEndExpressionString("", token.depth))]
      [] token.k = "Rocket" -> [h EXCEPT !.quote = Append(@, "=>")]
      [] token.k = "Dedent" -> h

\* StateExpression::handle_token
ExpressionHandleToken(h, token, at) ==
    IF h.in_quote THEN [h |-> QuotedHandleToken(h, token), req |-> RequestNone]
    ELSE CASE token.k = "Text" ->
                 IF IsWhitespace(token.s)
                     THEN [h |-> [h EXCEPT !.new_node = TRUE,
                                           !.quote_should_merge = FALSE],
                           req |-> RequestNone]
                     ELSE [h |-> AddText(h, token.s), req |-> RequestNone]
           [] token.k = "Quote" ->
                 [h |-> [h EXCEPT !.in_quote = TRUE], req |-> RequestNone]
           [] token.k = "StartBlock" ->
                 [h |-> h,
                  req |-> RequestPush(NewStateExpression(token.depth, token.line, at))]
           [] token.k = "Rocket" ->
                 [h |-> h,
                  req |-> RequestPush(NewStateRocket(h.colon_depth, token.line, at))]
           [] token.k = "RightParen" ->
                 IF token.depth = h.colon_depth
                     THEN [h |-> h, req |-> RequestPop(1)]
                     ELSE [h |-> AddText(h, PushEndExpressionString("", token.depth)),
                           req |-> RequestNone]
           [] token.k = "Dedent" -> [h |-> h, req |-> RequestPop(1)]

\* TokenHandler::handle_token
HandleToken(h, token, at) ==
    IF h.kind = "rocket" THEN RocketHandleToken(h, token, at)
    ELSE ExpressionHandleToken(h, token, at)

\* TokenHandler::finish (the node's lineno is the handler's)
Finish(h) ==
    IF h.kind = "rocket" /\ h.buffer # <<>>
        THEN NodeChildren(Append(h.root, NodeString(h.buffer)))
        ELSE NodeChildren(h.root)

\* TokenHandler::push
HandlerPush(h, node) == [h EXCEPT !.root = Append(@, node)]

RECURSIVE PopHandlers(_, _)
\* the loop of StackRequest::Pop(n): pop, finish, push the node to the new top;
\* both expect() calls panic when the stack runs out
PopHandlers(stack, n) ==
    IF n = 0 THEN [panic |-> "", stack |-> stack]
    ELSE IF stack = <<>> THEN [panic |-> "Cannot pop last handler", stack |-> stack]
    ELSE LET handler == stack[Len(stack)]
             rest == SubSeq(stack, 1, Len(stack) - 1)
         IN  IF rest = <<>> THEN [panic |-> "Empty parse stack", stack |-> rest]
             ELSE PopHandlers([rest EXCEPT ![Len(rest)] =
                                  HandlerPush(@, Finish(handler))], n - 1)

\* ParseContextStack::handle
StackHandle(stack, token, at) ==
    IF stack = <<>> THEN [panic |-> "Empty parse stack", stack |-> stack]
    ELSE LET r == HandleToken(stack[Len(stack)], token, at)
             handled == [stack EXCEPT ![Len(stack)] = r.h]
         IN  CASE r.req.t = "Push" ->
                     [panic |-> "", stack |-> Append(handled, r.req.handler)]
               [] r.req.t = "Pop" -> PopHandlers(handled, r.req.n)
               [] r.req.t = "None" -> [panic |-> "", stack |-> handled]

\* ParseContextStack::new(id, 0)
NewParseContextStack == <<NewStateRocket(0, 0, 0)>>

\* parse_string reporting the line of the outermost handler left open
ParseResultOuterLine(stack) ==
    IF Len(stack) > 1
        THEN [ok |-> FALSE, lineno |-> stack[2].lineno, root |-> NodeChildren(<<>>)]
        ELSE [ok |-> TRUE, lineno |-> 0, root |-> Finish(stack[1])]

\* parse_string after the loop: pop and finish the top handler; Err with its
\* line if another handler is left, Ok(root) otherwise
ParseResult(stack) ==
    IF Len(stack) > 1
        THEN [ok |-> FALSE, lineno |-> stack[Len(stack)].lineno,
              root |-> NodeChildren(<<>>)]
        ELSE [ok |-> TRUE, lineno |-> 0, root |-> Finish(stack[1])]

QInit ==
    /\ pinput \in Inputs
    /\ ptokens = <<>>
    /\ ppos = 0
    /\ pstack = <<>>
    /\ pprev = <<>>
    /\ ppc = "lex"
    /\ presult = <<>>
    /\ PipelineIdle
    /\ EvalIdle
    /\ LexIdle
    /\ SlugIdle
    /\ LockIdle
    /\ VersionIdle
    /\ TocIdle

\* parse_string: ParseContextStack::new and lex(data)
ParseLex ==
    /\ ppc = "lex"
    /\ ptokens' = Lex(pinput)
    /\ pstack' = NewParseContextStack
    /\ ppos' = 1
    /\ ppc' = "parse"
    /\ UNCHANGED <<vvars, kvars, svars, pvars, evars, lvars, tvars, pinput, pprev, presult>>

\* one turn of "for token in lex(data)": stack.handle(&token) returns
ParseHandle ==
    /\ ppc = "parse"
    /\ ppos <= Len(ptokens)
    /\ LET r == StackHandle(pstack, ptokens[ppos], ppos)
       IN  /\ r.panic = ""
           /\ pstack' = r.stack
    /\ pprev' = pstack
    /\ ppos' = ppos + 1
    /\ UNCHANGED <<vvars, kvars, svars, pvars, evars, lvars, tvars, pinput, ptokens, ppc, presult>>

\* one turn of the loop in which stack.handle(&token) panics
ParsePanic ==
    /\ ppc = "parse"
    /\ ppos <= Len(ptokens)
    /\ LET r == StackHandle(pstack, ptokens[ppos], ppos)
       IN  /\ r.panic # ""
           /\ pstack' = r.stack
           /\ presult' = [ok |-> FALSE, lineno |-> 0, root |-> NodeChildren(<<>>),
                          panic |-> r.panic]
    /\ pprev' = pstack
    /\ ppos' = ppos + 1
    /\ ppc' = "panic"
    /\ UNCHANGED <<vvars, kvars, svars, pvars, evars, lvars, tvars, pinput, ptokens>>

\* the end of parse_string (pstack keeps the stack the loop left)
ParseFinish ==
    /\ ppc = "parse"
    /\ ppos > Len(ptokens)
    /\ presult' = ParseResult(pstack)
    /\ ppc' = "done"
    /\ UNCHANGED <<vvars, kvars, svars, pvars, evars, lvars, tvars, pinput, ptokens, ppos, pstack, pprev>>

QNext == ParseLex \/ ParseHandle \/ ParsePanic \/ ParseFinish

SpecParse == QInit /\ [][QNext]_vars

----------------------------------------------------------------------------
\* Claims about parsing (checked under SpecParse)

Top(stack) == stack[Len(stack)]
\* a token has been handled; LastToken is that token and pprev the stack it met
Handled == ppc \in {"parse", "panic", "done"} /\ ppos > 1
LastToken == ptokens[ppos - 1]

\* C8 as claimed: parsing the lexer's tokens never panics; a rocket state that
\* receives a dedent has the expression state that introduced it beneath it.
C8_ParseNeverPanics ==
    /\ ppc # "panic"
    /\ (Handled /\ LastToken.k = "Dedent" /\ Top(pprev).kind = "rocket") =>
          /\ Len(pprev) >= 2
          /\ pprev[Len(pprev) - 1].kind = "expression"

\* C9: at the end of the input parse returns Err exactly when a handler other
\* than the top-level one is left on the stack, and the line it reports is the
\* line of the token that opened the innermost handler left; with only the
\* top-level handler left it returns Ok with the root Block.
C9_UnterminatedBlock ==
    ppc = "done" =>
        IF Len(pstack) > 1
            THEN /\ ~presult.ok
                 /\ Top(pstack).opened_at \in 1..Len(ptokens)
                 /\ ptokens[Top(pstack).opened_at].k \in {"StartBlock", "Rocket"}
                 /\ presult.lineno = ptokens[Top(pstack).opened_at].line
            ELSE /\ presult.ok
                 /\ pstack[1].opened_at = 0
                 /\ presult.root.t = "b"
                 /\ presult.root.c[1] = Word("concat")

\* C9 witness: the input ended inside two blocks opened on different lines
C9_Witness ==
    /\ ppc = "done"
    /\ ~presult.ok
    /\ Len(pstack) = 3
    /\ pstack[2].kind = "expression" /\ pstack[3].kind = "expression"
    /\ pstack[2].lineno # pstack[3].lineno

RECURSIVE RootText(_)
\* the literal text of an argument list, in order
RootText(root) ==
    IF root = <<>> THEN ""
    ELSE (IF Head(root).t = "s" THEN Flat(Head(root).v) ELSE "") \o RootText(Tail(root))

BlockCount(root) == Cardinality({i \in DOMAIN root : root[i].t = "b"})

\* C10: a block-close token of depth d met by the expression of a block opened at
\* depth n pops that expression only if d = n (and, outside a quoted span, always
\* then); for d # n the stack keeps its handlers and the expression's arguments
\* gain, as literal text, exactly the characters of the closer of depth d.
C10_CloserDepthMatches ==
    (Handled /\ LastToken.k = "RightParen" /\ Top(pprev).kind = "expression") =>
        LET e == Top(pprev)
            d == LastToken.depth
            closer == CloseLexeme(d).s
        IN  IF ~e.in_quote /\ d = e.colon_depth
                THEN /\ Len(pstack) = Len(pprev) - 1
                     /\ Top(pstack) =
                            HandlerPush(pprev[Len(pprev) - 1], NodeChildren(e.root))
                ELSE /\ Len(pstack) = Len(pprev)
                     /\ \A i \in 1..(Len(pprev) - 1) : pstack[i] = pprev[i]
                     /\ Top(pstack).kind = "expression"
                     /\ Top(pstack).colon_depth = e.colon_depth
                     /\ BlockCount(Top(pstack).root) = BlockCount(e.root)
                     /\ IF e.in_quote
                            THEN /\ Flat(Top(pstack).quote) = Flat(e.quote) \o closer
                                 /\ Top(pstack).root = e.root
                            ELSE /\ RootText(Top(pstack).root) = RootText(e.root) \o closer
                                 /\ Top(pstack).root[Len(Top(pstack).root)].t = "s"

\* C10 witness: (::::a:)::::) was parsed: the closer of depth 0 became text of the
\* argument and the closer of depth 3 closed the block
C10_Witness ==
    /\ ppc = "done"
    /\ presult.ok
    /\ Handled
    /\ LastToken = TokenRightParen(DeepDepth)
    /\ presult.root.c = <<Word("concat"), NodeChildren(<<NodeString(<<"a", ":)">>)>>)>>

\* the text of an input: its lexemes' characters in order
InputText(input) == Flat([i \in DOMAIN input |-> input[i].s])

\* the input holds literal text only: no block-open, no block-close and no
\* rocket marker (an "=>" right before a newline)
TextOnly(input) ==
    \A i \in DOMAIN input :
        \/ input[i].c \in {"text", "quote", "newline"}
        \/ /\ input[i].c = "arrow"
           /\ ~(i < Len(input) /\ input[i + 1].c = "newline")

\* the parse result is a single concat block: the name and at most one Text child
SingleConcatBlock(result) ==
    /\ result.ok
    /\ result.root.t = "b"
    /\ result.root.c[1] = Word("concat")
    /\ Len(result.root.c) <= 2
    /\ \A i \in 2..Len(result.root.c) : result.root.c[i].t = "s"

\* what evaluating the parsed page returns
Evaluated(result) == Flat(Eval(EvalWorker, result.root, MaxDepth).out)

\* the input with every line that holds spaces only made an empty line
BlankLinesBared(input) ==
    Flat([i \in DOMAIN input |->
             IF /\ input[i].c = "newline"
                /\ i < Len(input)
                /\ input[i + 1].c = "newline"
                 THEN "\n"
                 ELSE input[i].s])

\* C11 as claimed: an input of literal text only parses to a single concat block
\* whose evaluation is the input verbatim.
C11_TextRoundTrip ==
    (ppc = "done" /\ TextOnly(pinput)) =>
        /\ SingleConcatBlock(presult)
        /\ Evaluated(presult) = InputText(pinput)

\* C11 amended: an input of literal text only parses to a single concat block
\* whose evaluation is the input with the spaces of its whitespace-only lines
\* dropped, and so the input verbatim when it has no such line.
C11_TextRoundTripButBlankLines ==
    (ppc = "done" /\ TextOnly(pinput)) =>
        /\ SingleConcatBlock(presult)
        /\ Evaluated(presult) = BlankLinesBared(pinput)
        /\ (\A i \in DOMAIN pinput : pinput[i].c = "newline" => pinput[i].n = 0)
               => Evaluated(presult) = InputText(pinput)

\* C11 witness: a, newline and two spaces, newline, quote was parsed and
\* evaluates to a, two newlines and the quote
C11_Witness ==
    /\ ppc = "done"
    /\ pinput = <<TextLexeme("a"), NewlineLexeme(2), NewlineLexeme(0), QuoteLexeme>>
    /\ SingleConcatBlock(presult)
    /\ Evaluated(presult) = "a\n\n\""

----------------------------------------------------------------------------
\* lex.rs: the lexer, one match of PAT_TOKENS per step

MaxData == 4

\* the characters the texts are made of
Chars == {"a", ":", ">", " ", "\n", "(", ")", "=", "\""}

\* the texts: up to MaxData pieces, each a character or one of the two pairs
\* "=>" and newline-space
DataPieces ==
    {<<"a">>, <<":">>, <<" ">>, <<"\n">>, <<"(">>, <<")">>, <<"=">>, <<"\"">>,
     <<"=", ">">>, <<"\n", " ">>}

RECURSIVE ConcatAll(_)
ConcatAll(parts) == IF parts = <<>> THEN <<>> ELSE Head(parts) \o ConcatAll(Tail(parts))

Datas == {ConcatAll(parts) : parts \in UNION {[1..n -> DataPieces] : n \in 0..MaxData}}

\* \s and [^\(\)=\s"] of PAT_TOKENS
SpaceChars == {" ", "\n"}
WordChars == Chars \ {"(", ")", "=", "\"", " ", "\n"}

\* where the longest run of characters of the class that starts at p ends
RunEnd(data, p, class) ==
    CHOOSE q \in p..(Len(data) + 1) :
        /\ \A r \in p..(q - 1) : data[r] \in class
        /\ q = Len(data) + 1 \/ data[q] \notin class

\* PAT_TOKENS: the end of the match that starts at p, the alternatives in order
PAT_TOKENS(data, p) ==
    LET c == data[p]
        next == IF p < Len(data) THEN data[p + 1] ELSE ""
    IN  IF c = "(" /\ next = ":" THEN p + 2
        ELSE IF c = "=" /\ next = ">" THEN p + 2
        ELSE IF c = "\"" THEN p + 1
        ELSE IF c = "\n" THEN RunEnd(data, p + 1, {" "})
        ELSE IF c \in {"=", "(", ")"} THEN p + 1
        ELSE IF c \in SpaceChars THEN RunEnd(data, p, SpaceChars)
        ELSE RunEnd(data, p, WordChars)

\* enum Token of lex.rs
LexStartBlock(lineno) == [k |-> "StartBlock", line |-> lineno, s |-> <<>>]
LexRightParen == [k |-> "RightParen", line |-> 0, s |-> <<>>]
LexRocket == [k |-> "Rocket", line |-> 0, s |-> <<>>]
LexIndent == [k |-> "Indent", line |-> 0, s |-> <<>>]
LexDedent == [k |-> "Dedent", line |-> 0, s |-> <<>>]
LexText(lineno, s) == [k |-> "Text", line |-> lineno, s |-> s]
LexCharacter(lineno, c) == [k |-> "Character", line |-> lineno, s |-> <<c>>]
LexQuote(lineno) == [k |-> "Quote", line |-> lineno, s |-> <<>>]

\* what one turn of the loop leaves
LexState(pos, lineno, tokens, indent, start_rocket) ==
    [pos |-> pos, lineno |-> lineno, tokens |-> tokens, indent |-> indent,
     start_rocket |-> start_rocket, panic |-> ""]
LexPanicked(st, message) == [st EXCEPT !.panic = message]

RECURSIVE DedentLoopInclusive(_, _, _)
\* the dedent loop popping also a level equal to the new one
DedentLoopInclusive(indent, new_indentation_level, dedents) ==
    IF new_indentation_level <= indent[Len(indent)]
        THEN LET popped == SubSeq(indent, 1, Len(indent) - 1)
             IN  IF popped = <<>>
                     THEN [panic |-> "Indentation stack is empty", indent |-> popped,
                           dedents |-> dedents]
                     ELSE DedentLoopInclusive(popped, new_indentation_level,
                                              Append(dedents, LexDedent))
        ELSE [panic |-> "", indent |-> indent, dedents |-> dedents]

RECURSIVE DedentLoop(_, _, _)
\* "while new_indentation_level < current_indentation_level": pop, read the new
\* last level (or panic on an empty stack), push a Dedent
DedentLoop(indent, new_indentation_level, dedents) ==
    IF new_indentation_level < indent[Len(indent)]
        THEN LET popped == SubSeq(indent, 1, Len(indent) - 1)
             IN  IF popped = <<>>
                     THEN [panic |-> "Indentation stack is empty", indent |-> popped,
                           dedents |-> dedents]
                     ELSE DedentLoop(popped, new_indentation_level,
                                     Append(dedents, LexDedent))
        ELSE [panic |-> "", indent |-> indent, dedents |-> dedents]

\* the arm b'\n' with an if in the place of the while: one level popped at most
LexNewlineSingleDedent(st, token_text, next) ==
    LET nl == [st EXCEPT !.tokens = Append(@, LexCharacter(st.lineno, "\n"))]
        new_indentation_level == Len(token_text) - 1
        d == IF new_indentation_level < st.indent[Len(st.indent)] /\ Len(st.indent) > 1
                 THEN [panic |-> "", indent |-> SubSeq(st.indent, 1, Len(st.indent) - 1),
                       dedents |-> <<LexDedent>>]
                 ELSE [panic |-> "", indent |-> st.indent, dedents |-> <<>>]
        current_indentation_level == d.indent[Len(d.indent)]
    IN  IF next = "\n" THEN nl
        ELSE IF st.indent = <<>> THEN LexPanicked(nl, "Indentation stack is empty")
        ELSE IF d.panic # ""
            THEN LexPanicked([nl EXCEPT !.indent = d.indent,
                                        !.tokens = @ \o d.dedents], d.panic)
        ELSE IF st.start_rocket
            THEN [nl EXCEPT !.indent = Append(d.indent, new_indentation_level),
                            !.tokens = @ \o d.dedents \o <<LexIndent>>,
                            !.start_rocket = FALSE]
        ELSE IF new_indentation_level > current_indentation_level
            THEN [nl EXCEPT !.indent = d.indent,
                            !.tokens = @ \o d.dedents \o
                                <<LexText(st.lineno,
                                          SubSeq(token_text, 2 + current_indentation_level,
                                                 Len(token_text)))>>]
        ELSE [nl EXCEPT !.indent = d.indent, !.tokens = @ \o d.dedents]

\* the arm b'\n' of the match on bytes[0]
LexNewline(st, token_text, next) ==
    LET nl == [st EXCEPT !.tokens = Append(@, LexCharacter(st.lineno, "\n"))]
        new_indentation_level == Len(token_text) - 1
        d == DedentLoop(st.indent, new_indentation_level, <<>>)
        current_indentation_level == d.indent[Len(d.indent)]
    IN  IF next = "\n" THEN nl
        ELSE IF st.indent = <<>> THEN LexPanicked(nl, "Indentation stack is empty")
        ELSE IF d.panic # ""
            THEN LexPanicked([nl EXCEPT !.indent = d.indent,
                                        !.tokens = @ \o d.dedents], d.panic)
        ELSE IF st.start_rocket
            THEN [nl EXCEPT !.indent = Append(d.indent, new_indentation_level),
                            !.tokens = @ \o d.dedents \o <<LexIndent>>,
                            !.start_rocket = FALSE]
        ELSE IF new_indentation_level > current_indentation_level
            THEN [nl EXCEPT !.indent = d.indent,
                            !.tokens = @ \o d.dedents \o
                                <<LexText(st.lineno,
                                          SubSeq(token_text, 2 + current_indentation_level,
                                                 Len(token_text)))>>]
        ELSE [nl EXCEPT !.indent = d.indent, !.tokens = @ \o d.dedents]

\* one turn of the loop without the test for an empty line
LexIterationNoBlankTest(data, start, lineno0, last_match_start, tokens, indent, start_rocket) ==
    LET end == PAT_TOKENS(data, start)
        lineno == lineno0 + Count(SubSeq(data, last_match_start, start - 1), "\n")
        token_text == SubSeq(data, start, end - 1)
        next == IF end <= Len(data) THEN data[end] ELSE ""
        st == LexState(end, lineno, tokens, indent, start_rocket)
        push(token) == [st EXCEPT !.tokens = Append(@, token)]
    IN  IF token_text[1] = ")" THEN push(LexRightParen)
        ELSE IF token_text[1] = "\"" THEN push(LexQuote(lineno))
        ELSE IF token_text[1] = "\n" THEN LexNewline(st, token_text, "")
        ELSE IF token_text[1] = "("
            THEN IF Len(token_text) = 1 THEN push(LexCharacter(lineno, "("))
                 ELSE IF token_text[2] = ":" THEN push(LexStartBlock(lineno))
                 ELSE LexPanicked(st, "Bad character matched")
        ELSE IF token_text[1] = "="
            THEN IF next # "\n" THEN push(LexText(lineno, token_text))
                 ELSE IF token_text = <<"=", ">">>
                     THEN [st EXCEPT !.tokens = Append(@, LexRocket),
                                     !.start_rocket = TRUE]
                 ELSE push(LexCharacter(lineno, "="))
        ELSE push(LexText(lineno, token_text))

\* one turn of "for pat_match in PAT_TOKENS.find_iter(data)"
LexIteration(data, start, lineno0, last_match_start, tokens, indent, start_rocket) ==
    LET end == PAT_TOKENS(data, start)
        lineno == lineno0 + Count(SubSeq(data, last_match_start, start - 1), "\n")
        token_text == SubSeq(data, start, end - 1)
        next == IF end <= Len(data) THEN data[end] ELSE ""
        st == LexState(end, lineno, tokens, indent, start_rocket)
        push(token) == [st EXCEPT !.tokens = Append(@, token)]
    IN  IF token_text[1] = ")" THEN push(LexRightParen)
        ELSE IF token_text[1] = "\"" THEN push(LexQuote(lineno))
        ELSE IF token_text[1] = "\n" THEN LexNewline(st, token_text, next)
        ELSE IF token_text[1] = "("
            THEN IF Len(token_text) = 1 THEN push(LexCharacter(lineno, "("))
                 ELSE IF token_text[2] = ":" THEN push(LexStartBlock(lineno))
                 ELSE LexPanicked(st, "Bad character matched")
        ELSE IF token_text[1] = "="
            THEN IF next # "\n" THEN push(LexText(lineno, token_text))
                 ELSE IF token_text = <<"=", ">">>
                     THEN [st EXCEPT !.tokens = Append(@, LexRocket),
                                     !.start_rocket = TRUE]
                 ELSE push(LexCharacter(lineno, "="))
        ELSE push(LexText(lineno, token_text))

LInit ==
    /\ ldata \in Datas
    /\ lpos = 1
    /\ llineno = 0
    /\ llast = 1
    /\ ltokens = <<>>
    /\ lindent = <<0>>
    /\ lrocket = FALSE
    /\ lpc = "lex"
    /\ lstep = <<>>
    /\ PipelineIdle
    /\ EvalIdle
    /\ ParseIdle
    /\ TocIdle
    /\ SlugIdle
    /\ LockIdle
    /\ VersionIdle

\* one match of the loop, with the tokens it pushes
LexMatch ==
    /\ lpc = "lex"
    /\ lpos <= Len(ldata)
    /\ LET r == LexIteration(ldata, lpos, llineno, llast, ltokens, lindent, lrocket)
       IN  /\ lpos' = r.pos
           /\ llineno' = r.lineno
           /\ ltokens' = r.tokens
           /\ lindent' = r.indent
           /\ lrocket' = r.start_rocket
           /\ lpc' = IF r.panic # "" THEN "panic" ELSE "lex"
           /\ lstep' = [start |-> lpos, text |-> SubSeq(ldata, lpos, r.pos - 1),
                        before |-> Len(ltokens)]
    /\ llast' = lpos
    /\ UNCHANGED <<vvars, kvars, svars, pvars, evars, qvars, tvars, ldata>>

\* mutant: the levels still open at the end of the input are dropped unclosed
LexFinishNoDedents ==
    /\ lpc = "lex"
    /\ lpos > Len(ldata)
    /\ ltokens' = ltokens
    /\ lindent' = SubSeq(lindent, 1, 1)
    /\ lpc' = "done"
    /\ UNCHANGED <<vvars, kvars, svars, pvars, evars, qvars, tvars, ldata, lpos, llineno, llast, lrocket, lstep>>

\* after the loop: "while indent.len() > 1" pushes a Dedent and pops
LexFinish ==
    /\ lpc = "lex"
    /\ lpos > Len(ldata)
    /\ ltokens' = ltokens \o [i \in 1..(Len(lindent) - 1) |-> LexDedent]
    /\ lindent' = SubSeq(lindent, 1, 1)
    /\ lpc' = "done"
    /\ UNCHANGED <<vvars, kvars, svars, pvars, evars, qvars, tvars, ldata, lpos, llineno, llast, lrocket, lstep>>

LNext == LexMatch \/ LexFinish

SpecLex == LInit /\ [][LNext]_vars

----------------------------------------------------------------------------
\* Claims about lexing (checked under SpecLex)

RECURSIVE TextRuns(_)
\* the contents of the text runs of a token sequence, in order
TextRuns(tokens) ==
    IF tokens = <<>> THEN <<>>
    ELSE (IF Head(tokens).k \in {"Text", "Character"} THEN Head(tokens).s ELSE <<>>)
             \o TextRuns(Tail(tokens))

\* the match is a delimiter: "(:", ")", a quote, or "=>" right before a newline
IsDelimiter(data, start, text) ==
    \/ text \in {<<"(", ":">>, <<")">>, <<"\"">>}
    \/ /\ text = <<"=", ">">>
       /\ start + 2 <= Len(data)
       /\ data[start + 2] = "\n"

\* the match is a newline with its spaces, right before another newline: the
\* line is empty or holds spaces only
IsBlankLine(data, start, text) ==
    /\ text[1] = "\n"
    /\ start + Len(text) <= Len(data)
    /\ data[start + Len(text)] = "\n"

\* the text runs a match has to leave for the input to be covered: a delimiter
\* leaves none, a newline leaves itself and the indentation beyond the level of
\* the block the line lies in, any other match leaves its characters
Covering(data, start, text, level) ==
    IF text[1] = "\n"
        THEN <<"\n">> \o [i \in 1..(Len(text) - 1 - level) |-> " "]
    ELSE IF IsDelimiter(data, start, text) THEN <<>>
    ELSE text

\* the text runs the last match pushed
Pushed == TextRuns(SubSeq(ltokens, lstep.before + 1, Len(ltokens)))

\* C12 as claimed: lex never panics, every match consumes at least one character
\* (so the loop ends), and the text runs pushed for a match are the characters of
\* the match, unless the match is a delimiter, whose characters are consumed; the
\* indentation of a line up to the level of the block it lies in counts as
\* consumed with the block's delimiter.
C12_LexTotalAndCovers ==
    /\ lpc # "panic"
    /\ (lpc = "lex" /\ lstep # <<>>) =>
          /\ Len(lstep.text) >= 1
          /\ Pushed = Covering(ldata, lstep.start, lstep.text, lindent[Len(lindent)])

\* C12 amended: lex never panics, every match consumes at least one character,
\* and the text runs cover the input apart from the delimiters, the indentation
\* of the open block, and the spaces of a line that holds spaces only, which is
\* passed on as a bare newline.
C12_LexTotalCoversButBlankLines ==
    /\ lpc # "panic"
    /\ (lpc = "lex" /\ lstep # <<>>) =>
          /\ Len(lstep.text) >= 1
          /\ Pushed = IF IsBlankLine(ldata, lstep.start, lstep.text) THEN <<"\n">>
                      ELSE Covering(ldata, lstep.start, lstep.text,
                                    lindent[Len(lindent)])

\* C12 witness: newline-space, newline, "(:" was lexed: the line of one space
\* came out as a bare newline and the block delimiter left no text run
C12_Witness ==
    /\ lpc = "done"
    /\ ldata = <<"\n", " ", "\n", "(", ":">>
    /\ ltokens = <<LexCharacter(0, "\n"), LexCharacter(1, "\n"), LexStartBlock(2)>>

----------------------------------------------------------------------------
\* toctree.rs: the table of contents.  Pages are numbered in reading order: add
\* is called for page 1, 2, ... and names the following page as next_slug.

MaxTocPages == 5
MaxTocCalls == 2

\* the slug and the title add is called with for page i
TocSlug(i) ==
    IF i = 1 THEN <<"index">>
    ELSE IF i % 2 = 0 THEN <<"p" \o Dec(i)>>
    ELSE <<"p" \o Dec(i - 1), "q">>
TocTitle(i) == "T" \o Dec(i)

\* the order in which a HashMap hands out its entries, seen on n pages
IterOrders == {"ascending", "descending"}
Iterated(pages, order) ==
    IF order = "ascending" THEN SortSeq(pages, LAMBDA a, b : a < b)
    ELSE SortSeq(pages, LAMBDA a, b : a > b)

RECURSIVE SetToSeq(_)
SetToSeq(set) ==
    IF set = {} THEN <<>>
    ELSE LET x == CHOOSE y \in set : TRUE IN <<x>> \o SetToSeq(set \ {x})

\* finish: children, the inverted tree
TocChildren(parent, order, p) ==
    Iterated(SetToSeq({i \in DOMAIN parent : parent[i] = p}), order)

\* finish: roots, the orphans that have children
TocRoots(parent, order) ==
    Iterated(SetToSeq({i \in DOMAIN parent :
                           /\ parent[i] = 0
                           /\ \E j \in DOMAIN parent : parent[j] = i}), order)

\* finish: linear_order, the index of each page on the next_slug chain
LinearOrder(parent) == [i \in DOMAIN parent |-> i - 1]

\* finish: Ok unless there is no page with a parent or no root
FinishOk(parent, order) ==
    /\ \E i \in DOMAIN parent : parent[i] # 0
    /\ TocRoots(parent, order) # <<>>

RECURSIVE is_child_of(_, _, _)
\* is_child_of
is_child_of(parent, slug, ancestor) ==
    IF slug = ancestor THEN TRUE
    ELSE IF slug \in DOMAIN parent /\ parent[slug] # 0
        THEN is_child_of(parent, parent[slug], ancestor)
    ELSE FALSE

\* the tokens of the HTML: a fixed piece of markup, or the li_element that
\* format! builds from level, current, href and title
Markup(s) ==
    [t |-> "markup", s |-> s, level |-> 0, current |-> "", href |-> "", title |-> "",
     slug |-> 0]
LiElement(level, current, href, title, slug) ==
    [t |-> "li", s |-> "", level |-> level, current |-> current, href |-> href,
     title |-> title, slug |-> slug]

\* subtree_html: slug_prefix
SlugPrefix(cur_slug) ==
    LET slashes == Len(cur_slug) - 1
        cur_slug_depth == IF cur_slug[Len(cur_slug)] = "index" THEN slashes
                          ELSE slashes + 1
    IN  Flat(Repeat("../", cur_slug_depth))

\* slugs.join(" ")
CacheKey(slugs) == JoinWith([i \in DOMAIN slugs |-> SlugStr(TocSlug(slugs[i]))], " ")

RECURSIVE subtree_html(_, _, _, _, _, _)
RECURSIVE SubtreeLoop(_, _, _, _, _, _, _, _)

\* subtree_html, the loop "for slug in &slugs" from its i-th turn on
SubtreeLoop(parent, order, cur, level, slugs, i, tokens, cache) ==
    IF i > Len(slugs)
        THEN [ok |-> TRUE, tokens |-> Append(tokens, Markup("</ul>")), cache |-> cache]
    ELSE LET slug == slugs[i]
             current == IF is_child_of(parent, cur, slug) THEN "current" ELSE ""
             li_element == LiElement(level, current,
                                     SlugPrefix(TocSlug(cur)) \o SlugStr(TocSlug(slug)),
                                     TocTitle(slug), slug)
             children == TocChildren(parent, order, slug)
             key == CacheKey(slugs)
             opened == tokens \o <<li_element, Markup("<ul>")>>
         IN  IF children # <<>>
                 THEN IF current # "" \/ key \notin DOMAIN cache
                          THEN LET r == subtree_html(parent, order, cur, level + 1,
                                                     children, cache)
                               IN  IF ~r.ok THEN r
                                   ELSE SubtreeLoop(parent, order, cur, level, slugs, i + 1,
                                            opened \o r.tokens \o <<Markup("</ul>")>>,
                                            IF current = ""
                                                THEN CtxInsert(r.cache, key, r.tokens)
                                                ELSE r.cache)
                          ELSE SubtreeLoop(parent, order, cur, level, slugs, i + 1,
                                           opened \o cache[key] \o <<Markup("</ul>")>>,
                                           cache)
                 ELSE SubtreeLoop(parent, order, cur, level, slugs, i + 1,
                                  tokens \o <<li_element, Markup("</li>")>>, cache)

\* subtree_html
subtree_html(parent, order, cur, level, slugs, cache) ==
    IF TocRoots(parent, order) = <<>>
        THEN [ok |-> FALSE, tokens |-> <<>>, cache |-> cache]
    ELSE LET linear_order == LinearOrder(parent)
             sorted == SortSeq(slugs, LAMBDA a, b : linear_order[a] < linear_order[b])
         IN  SubtreeLoop(parent, order, cur, level, sorted, 1,
                         <<Markup("<ul class=\"current\">r")>>, cache)

\* generate_html
generate_html(parent, order, slug, cache) ==
    subtree_html(parent, order, slug, 1, TocRoots(parent, order), cache)

TInit ==
    /\ tparent = <<>>
    /\ titer = "ascending"
    /\ tcache = <<>>
    /\ tcur = 0
    /\ thtml = <<>>
    /\ tcalls = 0
    /\ tstage = "adding"
    /\ PipelineIdle
    /\ EvalIdle
    /\ ParseIdle
    /\ LexIdle
    /\ SlugIdle
    /\ LockIdle
    /\ VersionIdle

\* add(slug, title, parent, next_slug) for the next page: an orphan (0) or a
\* child of a page added before
TocAdd ==
    /\ tstage = "adding"
    /\ Len(tparent) < MaxTocPages
    /\ \E p \in 0..Len(tparent) : tparent' = Append(tparent, p)
    /\ UNCHANGED <<vvars, kvars, svars, pvars, evars, qvars, lvars, titer, tcache, tcur, thtml, tcalls, tstage>>

\* finish, the HashMaps iterating in some order
TocTreeFinish ==
    /\ tstage = "adding"
    /\ \E order \in IterOrders :
          /\ titer' = order
          /\ tstage' = IF FinishOk(tparent, order) THEN "finished" ELSE "failed"
    /\ UNCHANGED <<vvars, kvars, svars, pvars, evars, qvars, lvars, tparent, tcache, tcur, thtml, tcalls>>

\* generate_html(slug) for a page being rendered; the cache is kept
TocGenerate ==
    /\ tstage \in {"finished", "failed"}
    /\ tcalls < MaxTocCalls
    /\ \E cur \in DOMAIN tparent :
          LET r == generate_html(tparent, titer, cur, tcache)
          IN  /\ tcur' = cur
              /\ thtml' = [ok |-> r.ok, tokens |-> r.tokens]
              /\ tcache' = r.cache
    /\ tcalls' = tcalls + 1
    /\ UNCHANGED <<vvars, kvars, svars, pvars, evars, qvars, lvars, tparent, titer, tstage>>

TNext == TocAdd \/ TocTreeFinish \/ TocGenerate

SpecToc == TInit /\ [][TNext]_vars

----------------------------------------------------------------------------
\* Claims about the table of contents (checked under SpecToc)

\* C13 as claimed: in the HTML generate_html returns, an <li> entry is marked
\* "current" exactly when its slug is the current slug or one of its ancestors.
C13_CurrentChainMarked ==
    (tcalls > 0 /\ thtml.ok) =>
        \A i \in DOMAIN thtml.tokens :
            thtml.tokens[i].t = "li" =>
                (thtml.tokens[i].current = "current"
                    <=> is_child_of(tparent, tcur, thtml.tokens[i].slug))

\* C14 as claimed: whatever calls came before on the same cache, generate_html
\* returns what it returns for the same tree and current slug on an empty cache.
C14_CacheTransparent ==
    tcalls > 0 =>
        LET fresh == generate_html(tparent, titer, tcur, <<>>)
        IN  thtml = [ok |-> fresh.ok, tokens |-> fresh.tokens]


----------------------------------------------------------------------------
\* main.rs build_project started on a project whose pages register the same
\* reference id more than once.  Nothing in define-ref or Heading::handle looks
\* whether the id is taken, so these are projects the program accepts.

DupSources == {
    Parsed(<<DefRefOp(<<"q">>, <<"A", " ", "b">>), RefOp(<<"q">>)>>),
    Parsed(<<HeadingIdOp(1, <<"q">>, <<"T">>), TextOp(<<"x">>)>>)
}

DInit ==
    /\ \E n \in 0..MaxPages : paths = [i \in 1..n |-> i]
    /\ source \in [DOMAIN paths -> DupSources]
    /\ num_cpus \in 1..MaxCpus
    /\ mpc = "start"
    /\ tpc = [t \in Threads |-> "unspawned"]
    /\ tidx = [t \in Threads |-> 1]
    /\ worker = [t \in Threads |-> NewWorker]
    /\ built = [t \in Threads |-> NoPage]
    /\ refdefs = <<>>
    /\ pending_links = <<>>
    /\ titles = <<>>
    /\ pending_pages = <<>>
    /\ finish_count = 0
    /\ jobs = <<>>
    /\ written = <<>>
    /\ registered = {}
    /\ heading_err = {}
    /\ EvalIdle
    /\ ParseIdle
    /\ LexIdle
    /\ SlugIdle
    /\ LockIdle
    /\ VersionIdle
    /\ TocIdle

SpecDup == DInit /\ [][PNext]_vars

----------------------------------------------------------------------------
\* The build of the same project by one thread that takes the paths in order:
\* the run every other interleaving is compared with.

\* one top-level directive, evaluated against the shared maps
SeqOp(st, op) ==
    LET w == st.w
    IN  CASE op.op = "text" ->
               [st EXCEPT !.w = [w EXCEPT !.out = @ \o op.a1]]
          [] op.op = "define-ref" ->
               [st EXCEPT !.defs = InsertRefdef(@, Flat(op.a1), NewRefDef(op.a2, w.slug))]
          [] op.op = "h" ->
               LET explicit == op.n = 2
                   title == IF explicit THEN op.a2 ELSE op.a1
                   id == IF explicit THEN op.a1 ELSE TitleToId(op.a1)
                   h == HandleHeading(op.level, w.current_level)
                   titled == IF w.has_title THEN w
                             ELSE [w EXCEPT !.has_title = TRUE, !.title = title]
                   defs == IF explicit
                               THEN InsertRefdef(st.defs, Flat(id), NewRefDef(title, w.slug))
                               ELSE st.defs
               IN  [st EXCEPT !.defs = defs,
                              !.w = IF h.ok
                                        THEN [titled EXCEPT
                                                !.current_level = h.level,
                                                !.out = @ \o HeadingHtml(h.prefix, op.level,
                                                                         id, title)]
                                        ELSE titled]
          [] op.op = "ref" ->
               LET first == GetPlaceholder(st.links, Flat(op.a1), "Title")
                   links1 == IF op.n = 2 THEN st.links ELSE first.links
                   title == IF op.n = 2 THEN op.a2 ELSE <<first.marker>>
                   got == GetPlaceholder(links1, Flat(op.a1), "Path")
               IN  [st EXCEPT !.links = got.links,
                              !.w = [w EXCEPT !.out = @ \o RefHtml(got.marker, title)]]

RECURSIVE SeqOps(_, _)
SeqOps(st, ops) ==
    IF ops = <<>> THEN st ELSE SeqOps(SeqOp(st, Head(ops)), Tail(ops))

\* one path: set_slug, build_file, push
SeqPage(st, p) ==
    LET w == SetSlugOf(st.w, PageSlug(p))
    IN  IF ~source[p].ok THEN [st EXCEPT !.w = w]
        ELSE LET after == SeqOps([st EXCEPT !.w = [w EXCEPT !.out = <<>>]], source[p].ops)
                 output == after.w.out \o CloseSections(after.w.current_level)
                 page == [source_path |-> p, slug |-> after.w.slug,
                          body |-> InjectParagraphs(output),
                          has_title |-> after.w.has_title, title |-> after.w.title]
             IN  [after EXCEPT !.pages = Append(@, page)]

RECURSIVE SeqPages(_, _)
SeqPages(st, ps) ==
    IF ps = <<>> THEN st ELSE SeqPages(SeqPage(st, Head(ps)), Tail(ps))

SeqBuild ==
    SeqPages([w |-> NewWorker, defs |-> <<>>, links |-> <<>>, pages |-> <<>>], paths)

\* the files the sequential build writes
SeqWritten ==
    LET st == SeqBuild
        linked == [i \in DOMAIN st.pages |-> Substitute(st.pages[i], st.links, st.defs)]
        ok == {i \in DOMAIN st.pages : linked[i].ok /\ ~linked[i].panic}
    IN  [k \in {OutputPath(st.pages[i].slug, "build", PrettyUrl) : i \in ok} |->
            LET i == CHOOSE i \in ok : OutputPath(st.pages[i].slug, "build", PrettyUrl) = k
            IN  linked[i].body]

\* C15: a finished build has written, for every page, the same linked output as
\* the build of the same file contents by one thread taking the paths in order;
\* so any two runs with the same contents and the same chunks, whatever the
\* interleaving of their build threads, write identical output.
C15_InterleavingIndependent ==
    mpc = "done" => written = SeqWritten

\* C16: every step of the build keeps each entry of the reference-definition map
\* as it was written (the key stays, with the same title and slug), keeps each
\* entry of the titles map, and keeps the pending-placeholder list as a prefix of
\* the new list: writes only add.
C16_WritesOnlyAdd ==
    [][ /\ \A k \in DOMAIN refdefs : k \in DOMAIN refdefs' /\ refdefs'[k] = refdefs[k]
        /\ \A k \in DOMAIN titles : k \in DOMAIN titles' /\ titles'[k] = titles[k]
        /\ Len(pending_links') >= Len(pending_links)
        /\ SubSeq(pending_links', 1, Len(pending_links)) = pending_links ]_vars


----------------------------------------------------------------------------
\* Worker::evaluate on pages that bind names: defines in both forms, a local name
\* that is also a prelude directive, and nested lets of one name.

ScopeItems == {
    Word("x"),                                                  \* x
    Block3("define", Word("h1"), Word("v")),                    \* (:define h1 v:)
    NodeChildren(<<Word("define"), Word("evaluate"),            \* (:define evaluate n
                   Word("n"), Block2("h1", Word("T"))>>),       \*   (:h1 T:):)
    Block3("define", Word("n"), Block2("h1", Word("T"))),       \* (:define n (:h1 T:):)
    Block1("n"),                                                \* (:n:)
    Block2("h1", Word("T")),                                    \* (:h1 T:)
    NodeChildren(<<Word("let"),                                 \* (:let (h1 1)
                   NodeChildren(<<Word("h1"), Word("1")>>),     \*   (:let (h1 2)
                   Block3("let",                                \*     (:h1 T:):)
                          NodeChildren(<<Word("h1"), Word("2")>>),
                          Block2("h1", Word("T"))),             \*   (:h1 T:):)
                   Block2("h1", Word("T"))>>)
}

ScopePrograms == UNION {[1..n -> ScopeItems] : n \in 0..MaxProgram}

SInit ==
    /\ program \in ScopePrograms
    /\ epos = 1
    /\ ew = EvalWorker
    /\ etrace = <<>>
    /\ epc = "eval"
    /\ eoutput = <<>>
    /\ PipelineIdle
    /\ ParseIdle
    /\ LexIdle
    /\ SlugIdle
    /\ LockIdle
    /\ VersionIdle
    /\ TocIdle

SpecScope == SInit /\ [][ENext]_vars

----------------------------------------------------------------------------
\* Claims about name resolution (checked under SpecScope)

\* child j is a block whose name is the plain word name
Reads(j, name) ==
    /\ program[j].t = "b"
    /\ program[j].c # <<>>
    /\ program[j].c[1] = Word(name)

BlockName(j) == Flat(program[j].c[1].v)

\* child j is (:let (name a) (:let (name b) (:name ...:):) (:name ...:):)
IsNestedLet(j, name, a, b) ==
    /\ IsLetCall(j)
    /\ Len(program[j].c) = 4
    /\ program[j].c[2] = NodeChildren(<<Word(name), Word(a)>>)
    /\ program[j].c[3].t = "b"
    /\ Len(program[j].c[3].c) = 3
    /\ program[j].c[3].c[1] = Word("let")
    /\ program[j].c[3].c[2] = NodeChildren(<<Word(name), Word(b)>>)
    /\ program[j].c[3].c[3].t = "b"
    /\ program[j].c[3].c[3].c[1] = Word(name)
    /\ program[j].c[4].t = "b"
    /\ program[j].c[4].c[1] = Word(name)

BoundValues == {"1", "2"}

\* C17: a block whose name is bound in the worker's local map evaluates to the
\* stored value (a stored string as it is, with no directive run; a stored
\* expression evaluated), also when the name is a prelude directive; only a
\* name absent from the local map reaches the prelude directive, and a name in
\* neither is an error.  In nested lets of one name the inner body reads the
\* inner binding and the outer body the outer one.
C17_LocalBeforePrelude ==
    /\ \A j \in DOMAIN etrace :
          (program[j].t = "b" /\ program[j].c # <<>> /\ program[j].c[1].t = "s") =>
              LET pre == etrace[j].pre
                  name == BlockName(j)
              IN  IF name \in DOMAIN pre.ctx
                      THEN IF pre.ctx[name].t = "s"
                               THEN /\ etrace[j].out = pre.ctx[name].v
                                    /\ etrace[j].post = pre
                                    /\ ~etrace[j].err
                               ELSE /\ etrace[j].out =
                                           Eval(pre, pre.ctx[name], MaxDepth).out
                                    /\ ~etrace[j].err
                  ELSE IF name \in PreludeNames
                      THEN LET r == Handle(name, pre, Tail(program[j].c), MaxDepth)
                           IN  /\ etrace[j].err = ~r.ok
                               /\ etrace[j].out = r.out
                               /\ etrace[j].post = r.w
                  ELSE etrace[j].err /\ etrace[j].out = <<>>
    /\ \A j \in DOMAIN etrace : \A name \in PreludeNames : \A a, b \in BoundValues :
          IsNestedLet(j, name, a, b) => etrace[j].out = <<b, a>>

\* C17 witness: h1 was defined locally, then (:h1 T:) gave the defined text and
\* no heading, and the nested lets of h1 gave the inner value and then the outer
C17_Witness ==
    /\ epc = "done"
    /\ Len(program) = 3
    /\ program[1] = Block3("define", Word("h1"), Word("v"))
    /\ Reads(2, "h1") /\ etrace[2].out = <<"v">>
    /\ etrace[2].post.current_level = 0
    /\ IsNestedLet(3, "h1", "1", "2") /\ etrace[3].out = <<"2", "1">>

\* child i is (:define evaluate name e:) met with define not shadowed
IsEagerDefine(i, name) ==
    /\ Calls(i, "define")
    /\ Len(program[i].c) = 4
    /\ program[i].c[2] = Word("evaluate")
    /\ program[i].c[3] = Word(name)

\* child i is (:define name e:) met with define not shadowed
IsLazyDefine(i, name) ==
    /\ Calls(i, "define")
    /\ Len(program[i].c) = 3
    /\ program[i].c[2] = Word(name)

\* no define of name between child i and child j
NoDefineBetween(i, j, name) ==
    \A m \in (i + 1)..(j - 1) : ~IsEagerDefine(m, name) /\ ~IsLazyDefine(m, name)

DefinedNames == {"n", "h1"}

\* C18: a read of n after (:define evaluate n e:), with no define of n between,
\* returns the string e evaluated to where the define stood, whatever was
\* defined since; a read of n after (:define n e:) returns what e evaluates to
\* where the read stands.
C18_EagerOnceLazyEachRead ==
    \A i, j \in DOMAIN etrace : \A name \in DefinedNames :
        (i < j /\ Reads(j, name) /\ NoDefineBetween(i, j, name)) =>
            /\ IsEagerDefine(i, name) =>
                  etrace[j].out = Eval(etrace[i].pre, program[i].c[4], MaxDepth).out
            /\ IsLazyDefine(i, name) =>
                  /\ etrace[j].out = Eval(etrace[j].pre, program[i].c[3], MaxDepth).out
                  /\ etrace[j].post = Eval(etrace[j].pre, program[i].c[3], MaxDepth).w

\* C18 witness: n was defined with evaluate as (:h1 T:) while h1 was the prelude
\* heading, h1 was then defined locally as v, and the read of n gave the heading
C18_Witness ==
    /\ epc = "done"
    /\ Len(program) = 3
    /\ IsEagerDefine(1, "n")
    /\ IsLazyDefine(2, "h1")
    /\ Reads(3, "n")
    /\ etrace[3].out = HeadingHtml(<<"<section>">>, 1, <<"t">>, <<"T">>)
    /\ Eval(etrace[3].pre, program[1].c[4], MaxDepth).out = <<"v">>


----------------------------------------------------------------------------
\* Claims about define (checked under SpecEval)

\* node is the block (:define name value:)
IsDefineOf(node, name) ==
    /\ node.t = "b"
    /\ Len(node.c) = 3
    /\ node.c[1] = Word("define")
    /\ node.c[2] = Word(name)

\* the children of child i that are evaluated as a define of name: the child
\* itself, or a child of the body of a let
DefinesIn(i, name) ==
    IF Calls(i, "define") /\ IsDefineOf(program[i], name) THEN <<program[i]>>
    ELSE IF IsLetCall(i) /\ "define" \notin LetKeys(program[i])
        THEN SelectSeq(SubSeq(program[i].c, 3, Len(program[i].c)),
                       LAMBDA node : IsDefineOf(node, name))
    ELSE <<>>

\* the value the last of them binds name to
DefinedValue(i, name) == DefinesIn(i, name)[Len(DefinesIn(i, name))].c[3]

BoundTo(ctx, name, value) == name \in DOMAIN ctx /\ ctx[name] = value

EvalNames == {"k"}

\* C19 as claimed: once a define of a name has been evaluated, at the top level
\* of the page or inside the body of a let, the name is bound to the defined
\* value after that child and after every later child of the page, up to the
\* next child that evaluates a define of the same name.
C19_DefinePersists ==
    \A i \in DOMAIN etrace : \A name \in EvalNames :
        DefinesIn(i, name) # <<>> =>
            \A j \in i..Len(etrace) :
                (\A m \in (i + 1)..j : DefinesIn(m, name) = <<>>) =>
                    BoundTo(etrace[j].post.ctx, name, DefinedValue(i, name))


----------------------------------------------------------------------------
\* main.rs build_project: one build thread's Worker taken through the pages of
\* its chunk.  The Worker is made once per thread; refdefs and pending_links
\* belong to the shared Evaluator and live on from page to page.

\* Worker::set_slug that only stores the slug
SetSlugOnly(w, slug) == [w EXCEPT !.slug = slug]

\* Worker::set_slug: current_slug, current_level = 0, ctx.clear(), theme_config.clear()
set_slug(w, slug) ==
    [w EXCEPT !.slug = slug, !.current_level = 0, !.ctx = <<>>,
              !.has_title = FALSE, !.title = <<>>]

PageItems == {
    Word("x"),                                                  \* x
    NodeChildren(<<Word("define"), Word("evaluate"),            \* (:define evaluate k
                   Word("k"), Block2("ref", Word("q"))>>),      \*   (:ref q:):)
    Block1("k"),                                                \* (:k:)
    Block3("h1", Word("r"), Word("T"))                          \* (:h1 r T:)
}

PagePrograms == UNION {[1..n -> PageItems] : n \in 0..MaxProgram}

\* the position in the chunk of the page the worker is on
PageOf(slug) == CHOOSE p \in 1..MaxPages : PageSlug(p) = slug

GInit ==
    /\ program \in PagePrograms
    /\ epos = 1
    /\ ew = set_slug(EvalWorker, PageSlug(1))
    /\ etrace = <<>>
    /\ epc = "eval"
    /\ eoutput = <<>>
    /\ PipelineIdle
    /\ ParseIdle
    /\ LexIdle
    /\ SlugIdle
    /\ LockIdle
    /\ VersionIdle
    /\ TocIdle

\* the next turn of "for path in chunk": worker.set_slug(slug), then build_file
\* parses the next file
EvalNextPage ==
    /\ epc = "done"
    /\ PageOf(ew.slug) < MaxPages
    /\ ew' = set_slug(ew, PageSlug(PageOf(ew.slug) + 1))
    /\ program' \in PagePrograms
    /\ epos' = 1
    /\ etrace' = <<>>
    /\ eoutput' = <<>>
    /\ epc' = "eval"
    /\ UNCHANGED <<vvars, kvars, svars, pvars, qvars, lvars, tvars>>

GNext == ENext \/ EvalNextPage

SpecPages == GInit /\ [][GNext]_vars

----------------------------------------------------------------------------
\* Claims about the worker between pages (checked under SpecPages)

\* a Worker made for this page alone, on the Evaluator as the page found it
FreshWorker(slug, shared) ==
    [EvalWorker EXCEPT !.slug = slug, !.refdefs = shared.refdefs,
                       !.pending_links = shared.pending_links,
                       !.overflow = shared.overflow]

\* C20: when a page starts, the worker's local map is empty, it has no title
\* and its nesting level is 0; every child of the page then puts out what it
\* puts out on a worker made new for this page, whatever the pages built before
\* on the same worker bound, titled or left open.
C20_PageStartsClean ==
    /\ (epc = "eval" /\ epos = 1) =>
          /\ ew.ctx = <<>>
          /\ ew.current_level = 0
          /\ ~ew.has_title
          /\ ew.title = <<>>
    /\ \A i \in DOMAIN etrace :
          etrace[i].out =
              OutputsFrom(FreshWorker(ew.slug, etrace[1].pre), program)[i]

\* C20 witness: the second page of the chunk has been evaluated after a page that
\* bound k (its ref left two pending links) and opened a titled section (its
\* heading registered r for index); on the second page k is unknown and the
\* same heading opens a section again
C20_Witness ==
    /\ ew.slug = PageSlug(2)
    /\ epc = "eval"
    /\ epos > Len(program)
    /\ program = <<Block1("k"), Block3("h1", Word("r"), Word("T"))>>
    /\ Len(etrace[1].pre.pending_links) = 2
    /\ "r" \in DOMAIN etrace[1].pre.refdefs
    /\ etrace[1].pre.refdefs["r"].slug = PageSlug(1)
    /\ etrace[1].err
    /\ etrace[2].out = HeadingHtml(<<"<section>">>, 1, <<"r">>, <<"T">>)


----------------------------------------------------------------------------
\* Claims about files that fail to parse (checked under Spec)

\* the pages the build holds at this moment, wherever they are
HeldPages ==
    {built[t] : t \in DOMAIN built} \cup {pending_pages[i] : i \in DOMAIN pending_pages}
        \cup {jobs[j].page : j \in DOMAIN jobs}

HasPage(p) == \E page \in HeldPages : page.source_path = p /\ page.slug = PageSlug(p)

\* C21: a file the parser rejects never yields a Page: none is built, pushed or
\* handed to the link phase for it, no title is recorded for its slug and no
\* output is written for it; every file that parses has its Page and its title
\* once the build threads have ended, and its output once the build is over,
\* whatever other files of its chunk or of other chunks failed to parse.
C21_ParseFailureSkipsOnlyThatFile ==
    /\ \A p \in DOMAIN paths :
          ~source[p].ok =>
              /\ \A page \in HeldPages : page.source_path # p
              /\ SlugStr(PageSlug(p)) \notin DOMAIN titles
              /\ OutputPath(PageSlug(p), "build", PrettyUrl) \notin DOMAIN written
    /\ \A p \in DOMAIN paths :
          source[p].ok =>
              /\ (mpc \in {"finish", "link", "linking", "done"}) =>
                    HasPage(p) /\ SlugStr(PageSlug(p)) \in DOMAIN titles
              /\ mpc = "done" =>
                    OutputPath(PageSlug(p), "build", PrettyUrl) \in DOMAIN written

\* C21 witness: one thread had a chunk of two files, the first was rejected by the
\* parser and the second was built and written
C21_Witness ==
    /\ mpc = "done"
    /\ Len(paths) = 2
    /\ Cardinality(Threads) = 1
    /\ ~source[1].ok
    /\ source[2].ok
    /\ DOMAIN written = {OutputPath(PageSlug(2), "build", PrettyUrl)}
    /\ DOMAIN titles = {SlugStr(PageSlug(2))}


----------------------------------------------------------------------------
\* Claims about section nesting and the page title (checked under SpecEval)

\* C22 as claimed: at every point of a page the <section> openers put out so far
\* minus the </section> closers put out so far is the worker's nesting level,
\* and the finished body, which ends with close_sections(), has as many closers
\* as openers.
C22_SectionsBalanced ==
    /\ Openers(RootOutput(etrace)) - Closers(RootOutput(etrace)) = ew.current_level
    /\ epc = "done" => Openers(eoutput) = Closers(eoutput)

\* C25 as claimed: a heading sets the page title exactly when it is an h1 and no
\* title is set yet, and then to its own title; a heading of another level, and
\* any heading met with a title already set, leaves the title as it was.
C25_TitleFromFirstH1 ==
    \A i \in DOMAIN etrace : \A L \in 1..3 :
        IsHeadingCall(i, L) =>
            LET pre == etrace[i].pre
                post == etrace[i].post
            IN  IF L = 1 /\ ~pre.has_title
                    THEN post.has_title /\ post.title = program[i].c[2].v
                    ELSE post.has_title = pre.has_title /\ post.title = pre.title


----------------------------------------------------------------------------
\* Claims about placeholders (checked under Spec)

\* the text of page p as far as it exists: the worker's output while the page is
\* evaluated, the Page's body once it is built
PageText(pages, p) ==
    IF \E page \in pages : page.source_path = p
        THEN (CHOOSE page \in pages : page.source_path = p).body
    ELSE IF \E t \in Threads : tpc[t] = "eval" /\ CurPath(t) = p
        THEN worker[CHOOSE t \in Threads : tpc[t] = "eval" /\ CurPath(t) = p].out
    ELSE <<>>

\* the ref invocations of page p, in source order
RefOps(p) == SelectSeq(source[p].ops, LAMBDA op : op.op = "ref")

\* the number of anchors opened in text up to position i
AnchorsUpTo(text, i) == Cardinality({k \in 1..i : text[k] = "<a href=\""})

\* the page texts, and the Title marker a worker holds between its two calls
\* (<<>> when none is held for the page)
PageTexts == LET pages == HeldPages IN [p \in DOMAIN paths |-> PageText(pages, p)]
HeldMarkers ==
    [p \in DOMAIN paths |->
        IF \E t \in Threads : tpc[t] = "eval" /\ CurPath(t) = p
            THEN worker[CHOOSE t \in Threads : tpc[t] = "eval" /\ CurPath(t) = p].held
            ELSE <<>>]

\* the markers get_placeholder can return, and the index each carries
MarkerStrings == {PlaceholderStr(n) : n \in 0..MaxMarker}
MarkerIndex == [marker \in MarkerStrings |-> ParseMarker(marker)]

\* every marker in a page text or held by a worker, as <<page, position>>;
\* position 0 is the held Title marker
MarkersIssued(texts, helds) ==
    UNION {{<<p, i>> : i \in {i \in 0..Len(texts[p]) :
                \/ i > 0 /\ texts[p][i] \in MarkerStrings
                \/ i = 0 /\ helds[p] # <<>>}} :
           p \in DOMAIN paths}

MarkerAt(texts, helds, site) ==
    IF site[2] = 0 THEN helds[site[1]][1] ELSE texts[site[1]][site[2]]

\* the ref invocation a marker site belongs to, and the action it stands for
SiteRef(texts, site) ==
    LET text == texts[site[1]]
    IN  IF site[2] = 0 THEN RefOps(site[1])[AnchorsUpTo(text, Len(text)) + 1]
        ELSE RefOps(site[1])[AnchorsUpTo(text, site[2])]
SiteAction(texts, site) ==
    IF site[2] > 1 /\ texts[site[1]][site[2] - 1] = "<a href=\"" THEN "Path" ELSE "Title"

\* C23: whatever the interleaving, every marker returned so far carries the index
\* at which pending_links holds the (action, refid) entry its own call appended:
\* the marker in an anchor's href a Path entry for that ref's id, the marker in
\* an anchor's text (or still held by the worker) a Title entry for it; no two
\* markers carry the same index; a ref with a title argument has the title as
\* anchor text and one Path entry, a ref without one has a Title marker as
\* anchor text.
C23_MarkerIsOwnEntry ==
    LET texts == PageTexts
        helds == HeldMarkers
        sites == MarkersIssued(texts, helds)
        index == [site \in sites |-> MarkerIndex[MarkerAt(texts, helds, site)]]
    IN  /\ \A site \in sites :
              /\ index[site] + 1 <= Len(pending_links)
              /\ pending_links[index[site] + 1] =
                     [action |-> SiteAction(texts, site),
                      refid |-> Flat(SiteRef(texts, site).a1)]
              /\ SiteAction(texts, site) = "Title" => SiteRef(texts, site).n = 1
        /\ \A s1, s2 \in sites : s1 # s2 => index[s1] # index[s2]
        /\ \A p \in DOMAIN paths : \A i \in DOMAIN texts[p] :
              (texts[p][i] = "\">" /\ i > 2 /\ texts[p][i - 2] = "<a href=\"") =>
                  LET op == RefOps(p)[AnchorsUpTo(texts[p], i)]
                  IN  IF op.n = 2 THEN SubSeq(texts[p], i + 1, i + Len(op.a2)) = op.a2
                      ELSE texts[p][i + 1] \in MarkerStrings

\* C23 witness: two threads evaluated a ref each; the Title entry and the Path
\* entry of the ref without a title are apart, the other thread's Path entry
\* being between them
C23_Witness ==
    /\ BuildThreadsEnded
    /\ Cardinality(Threads) = 2
    /\ pending_links = <<[action |-> "Title", refid |-> "q"],
                         [action |-> "Path", refid |-> "r"],
                         [action |-> "Path", refid |-> "q"]>>


----------------------------------------------------------------------------
\* Worker::evaluate on pages of headings given a title, or an id and a title.

HeadItems == {
    Word("x"),                                                  \* x
    Block2("h1", Word("T")),                                    \* (:h1 T:)
    Block3("h1", Word("r"), Word("T")),                         \* (:h1 r T:)
    Block2("h2", Word("s")),                                    \* (:h2 s:)
    Block3("h2", Word("q"), Word("b"))                          \* (:h2 q b:)
}

HeadPrograms == UNION {[1..n -> HeadItems] : n \in 0..MaxProgram}

HInit ==
    /\ program \in HeadPrograms
    /\ epos = 1
    /\ ew = EvalWorker
    /\ etrace = <<>>
    /\ epc = "eval"
    /\ eoutput = <<>>
    /\ PipelineIdle
    /\ ParseIdle
    /\ LexIdle
    /\ SlugIdle
    /\ LockIdle
    /\ VersionIdle
    /\ TocIdle

SpecHead == HInit /\ [][ENext]_vars

----------------------------------------------------------------------------
\* Claims about the RefDef of a heading (checked under SpecHead)

\* a heading directive of level L applied to a plain id and a plain title
IsHeadingIdCall(i, L) ==
    /\ Calls(i, "h" \o Dec(L))
    /\ Len(program[i].c) = 3
    /\ program[i].c[2].t = "s"
    /\ program[i].c[3].t = "s"

Registered(defs, id, title, slug) ==
    Flat(id) \in DOMAIN defs /\ defs[Flat(id)] = NewRefDef(title, slug)

----------------------------------------------------------------------------
\* Worker::evaluate on pages of if directives whose branches bind names,
\* register refdefs and append placeholders.

IfItems == {
    Word("x"),                                                  \* x
    NodeChildren(<<Word("if"), NodeString(<<>>),                \* (:if ""
                   Block3("define", Word("k"), Word("a")),      \*   (:define k a:)
                   Block3("define", Word("k"), Word("b"))>>),   \*   (:define k b:):)
    NodeChildren(<<Word("if"), Word("y"),                       \* (:if y
                   Block3("define", Word("k"), Word("a")),      \*   (:define k a:)
                   Block3("define", Word("k"), Word("b"))>>),   \*   (:define k b:):)
    NodeChildren(<<Word("if"), Block1("k"),                     \* (:if (:k:)
                   Block2("ref", Word("q")),                    \*   (:ref q:)
                   Block3("define-ref", Word("r"), Word("T"))>>), \* (:define-ref r T:):)
    Block3("if", NodeString(<<>>), Block2("ref", Word("q"))),   \* (:if "" (:ref q:):)
    Block1("k")                                                 \* (:k:)
}

IfPrograms == UNION {[1..n -> IfItems] : n \in 0..MaxProgram}

IInit ==
    /\ program \in IfPrograms
    /\ epos = 1
    /\ ew = EvalWorker
    /\ etrace = <<>>
    /\ epc = "eval"
    /\ eoutput = <<>>
    /\ PipelineIdle
    /\ ParseIdle
    /\ LexIdle
    /\ SlugIdle
    /\ LockIdle
    /\ VersionIdle
    /\ TocIdle

SpecIf == IInit /\ [][ENext]_vars

----------------------------------------------------------------------------
\* Claims about if (checked under SpecIf)

\* child i is an if with a condition and one or two branches
IsIfCall(i) ==
    /\ Calls(i, "if")
    /\ Len(program[i].c) \in {3, 4}

\* C26: an if whose condition evaluates to "" puts out its third argument
\* evaluated (nothing when there is none), an if whose condition evaluates to
\* anything else its second argument evaluated; the worker and the shared
\* registries after the if are those left by the condition and the selected
\* branch alone, so no binding, refdef or placeholder of the other branch exists.
C26_IfEvaluatesOneBranch ==
    \A i \in DOMAIN etrace :
        IsIfCall(i) =>
            LET condition == Eval(etrace[i].pre, program[i].c[2], MaxDepth)
                truth == Flat(condition.out) # ""
                absent == ~truth /\ Len(program[i].c) = 3
                selected == IF truth THEN program[i].c[3]
                            ELSE program[i].c[Len(program[i].c)]
                branch == Eval(condition.w, selected, MaxDepth)
            IN  /\ ~etrace[i].err
                /\ etrace[i].out = (IF absent THEN <<>> ELSE branch.out)
                /\ etrace[i].post = (IF absent THEN condition.w ELSE branch.w)

\* C26 witness: the first if had the condition y and bound k to a, not to b; the
\* second had the condition (:k:), so it appended the two placeholders of
\* (:ref q:) and registered no refdef
C26_Witness ==
    /\ epc = "done"
    /\ Len(program) = 2
    /\ IsIfCall(1) /\ program[1].c[2] = Word("y")
    /\ IsIfCall(2) /\ program[2].c[2] = Block1("k")
    /\ ew.ctx = CtxInsert(<<>>, "k", Word("a"))
    /\ Len(ew.pending_links) = 2
    /\ ew.refdefs = <<>>


----------------------------------------------------------------------------
\* Worker::evaluate on pages of lets whose value expression has side effects.

LetItems == {
    Word("x"),                                                  \* x
    NodeChildren(<<Word("let"),                                 \* (:let (k (:ref q:))
                   NodeChildren(<<Word("k"), Block2("ref", Word("q"))>>),
                   Block1("k"), Block1("k")>>),                 \*   (:k:) (:k:):)
    NodeChildren(<<Word("let"),                                 \* (:let (k (:h1 T:))
                   NodeChildren(<<Word("k"), Block2("h1", Word("T"))>>),
                   Block1("k"), Block1("k")>>),                 \*   (:k:) (:k:):)
    Block2("let",                                               \* (:let (k (:ref q:)):)
           NodeChildren(<<Word("k"), Block2("ref", Word("q"))>>)),
    Block3("let",                                               \* (:let (k (:h1 r T:))
           NodeChildren(<<Word("k"), Block3("h1", Word("r"), Word("T"))>>),
           Block1("k"))                                         \*   (:k:):)
}

LetPrograms == UNION {[1..n -> LetItems] : n \in 0..MaxProgram}

BInit ==
    /\ program \in LetPrograms
    /\ epos = 1
    /\ ew = EvalWorker
    /\ etrace = <<>>
    /\ epc = "eval"
    /\ eoutput = <<>>
    /\ PipelineIdle
    /\ ParseIdle
    /\ LexIdle
    /\ SlugIdle
    /\ LockIdle
    /\ VersionIdle
    /\ TocIdle

SpecLet == BInit /\ [][ENext]_vars

----------------------------------------------------------------------------
\* Claims about let values (checked under SpecLet)

\* child i is (:let (name value) (:name:) ... (:name:):) with any number of reads
IsLetOfReads(i, name) ==
    /\ IsLetCall(i)
    /\ Len(program[i].c[2].c) = 2
    /\ program[i].c[2].c[1] = Word(name)
    /\ \A b \in 3..Len(program[i].c) : program[i].c[b] = Block1(name)

RECURSIVE Copies(_, _)
Copies(s, n) == IF n = 0 THEN <<>> ELSE s \o Copies(s, n - 1)

LetNames == {"k"}

\* C27: a let that binds one name to a value expression and reads it n times in
\* its body puts out n copies of the string the expression evaluated to before
\* the body; nesting level, title, refdefs and pending links after the let are
\* those left by evaluating the expression once, however many reads there were.
C27_LetValueOnce ==
    \A i \in DOMAIN etrace : \A name \in LetNames :
        IsLetOfReads(i, name) =>
            LET value == Eval(etrace[i].pre, program[i].c[2].c[2], MaxDepth)
                reads == Len(program[i].c) - 2
            IN  /\ ~etrace[i].err
                /\ etrace[i].out = Copies(value.out, reads)
                /\ [etrace[i].post EXCEPT !.ctx = <<>>] = [value.w EXCEPT !.ctx = <<>>]

\* C27 witness: (:let (k (:ref q:)) (:k:) (:k:):) was evaluated: two pending links
\* in all, and the same anchor put out twice
C27_Witness ==
    /\ epc = "done"
    /\ Len(program) = 1
    /\ IsLetOfReads(1, "k")
    /\ Len(program[1].c) = 4
    /\ program[1].c[2].c[2] = Block2("ref", Word("q"))
    /\ Len(ew.pending_links) = 2
    /\ etrace[1].out = RefHtml(PlaceholderStr(1), <<PlaceholderStr(0)>>)
                           \o RefHtml(PlaceholderStr(1), <<PlaceholderStr(0)>>)


----------------------------------------------------------------------------
\* lex.rs on texts of rocket blocks: lines of different indentation, empty
\* lines, and "=>" at the end of a line.

IndentPieces ==
    {<<"a">>, <<"\n">>, <<"\n", " ">>, <<"=", ">">>, <<"=", ">", "\n", " ", "a">>,
     <<"=", ">", "\n", " ", " ", "a">>}

IndentDatas ==
    {ConcatAll(parts) : parts \in UNION {[1..n -> IndentPieces] : n \in 0..MaxData}}

NInit ==
    /\ ldata \in IndentDatas
    /\ lpos = 1
    /\ llineno = 0
    /\ llast = 1
    /\ ltokens = <<>>
    /\ lindent = <<0>>
    /\ lrocket = FALSE
    /\ lpc = "lex"
    /\ lstep = <<>>
    /\ PipelineIdle
    /\ EvalIdle
    /\ ParseIdle
    /\ TocIdle
    /\ SlugIdle
    /\ LockIdle
    /\ VersionIdle

SpecIndent == NInit /\ [][LNext]_vars

----------------------------------------------------------------------------
\* Claims about indentation (checked under SpecIndent)

\* the next match is a newline with the spaces after it
AtNewline == lpc = "lex" /\ lpos <= Len(ldata) /\ ldata[lpos] = "\n"

\* the character after the next match, "" at the end of the text
AfterMatch ==
    IF PAT_TOKENS(ldata, lpos) <= Len(ldata) THEN ldata[PAT_TOKENS(ldata, lpos)] ELSE ""

\* the width of the leading spaces of the line the next match starts
Width == PAT_TOKENS(ldata, lpos) - lpos - 1

\* the tokens the step pushes
NewTokens == SubSeq(ltokens', Len(ltokens) + 1, Len(ltokens'))

\* how many levels are to be popped for the top to be no larger than width
ToPop(indent, width) ==
    CHOOSE n \in 0..(Len(indent) - 1) :
        /\ indent[Len(indent) - n] <= width
        /\ \A m \in 0..(n - 1) : indent[Len(indent) - m] > width

Kinds(tokens) == [i \in DOMAIN tokens |-> tokens[i].k]

----------------------------------------------------------------------------
\* parse_string on one expression of words, spaces and quotes, left open,
\* closed, or closed and followed by a rocket at the top level.

QuoteLexemes == {TextLexeme("a"), TextLexeme("b"), TextLexeme(" "), QuoteLexeme}

QuoteBodies == UNION {[1..n -> QuoteLexemes] : n \in 0..(MaxInput + 1)}

QuoteTails ==
    {<<>>, <<CloseLexeme(ShallowDepth)>>,
     <<CloseLexeme(ShallowDepth), ArrowLexeme, NewlineLexeme(2)>>}

QuoteInputs ==
    {<<OpenLexeme(ShallowDepth)>> \o body \o tail : body \in QuoteBodies, tail \in QuoteTails}

KInit ==
    /\ pinput \in QuoteInputs
    /\ ptokens = <<>>
    /\ ppos = 0
    /\ pstack = <<>>
    /\ pprev = <<>>
    /\ ppc = "lex"
    /\ presult = <<>>
    /\ PipelineIdle
    /\ EvalIdle
    /\ LexIdle
    /\ SlugIdle
    /\ LockIdle
    /\ VersionIdle
    /\ TocIdle

SpecQuote == KInit /\ [][QNext]_vars

----------------------------------------------------------------------------
\* Claims about literal arguments (checked under SpecQuote)

RECURSIVE Literals(_, _, _, _, _)
\* the literal arguments of an expression's body, read off the text: a run of
\* words and quoted spans with no space between them outside quotes is one
\* argument, its value the words and the quoted texts in order. open says that
\* an argument has begun, cur is its value so far.
Literals(body, in_quote, open, cur, args) ==
    IF body = <<>> THEN (IF open THEN Append(args, cur) ELSE args)
    ELSE LET m == Head(body)
         IN  IF in_quote
                 THEN IF m.c = "quote" THEN Literals(Tail(body), FALSE, TRUE, cur, args)
                      ELSE Literals(Tail(body), TRUE, TRUE, cur \o m.s, args)
             ELSE IF m.c = "quote" THEN Literals(Tail(body), TRUE, TRUE, cur, args)
             ELSE IF m.s = " "
                 THEN Literals(Tail(body), FALSE, FALSE, "",
                               IF open THEN Append(args, cur) ELSE args)
             ELSE Literals(Tail(body), FALSE, TRUE, cur \o m.s, args)

\* the quotes of a body pair up
QuotesClosed(body) == Cardinality({i \in DOMAIN body : body[i].c = "quote"}) % 2 = 0

\* the text between the "(:" and the ":)" of the input
BodyOf(input) == SubSeq(input, 2, Len(input) - 1)

\* the input is one closed expression
OneExpression ==
    /\ Len(pinput) >= 2
    /\ pinput[Len(pinput)] = CloseLexeme(ShallowDepth)
    /\ BodyOf(pinput) \in QuoteBodies
    /\ QuotesClosed(BodyOf(pinput))

\* the children of the expression node the parse returned
ParsedArgs == presult.root.c[2].c

\* C30: the arguments of a parsed expression are its runs of words and quoted
\* spans: spans with no space between them outside quotes make one literal,
\* whatever their order, and only such a space starts another.
C30_AdjacentSpansOneLiteral ==
    (ppc = "done" /\ OneExpression) =>
        /\ presult.ok
        /\ Len(presult.root.c) = 2
        /\ LET expected == Literals(BodyOf(pinput), FALSE, FALSE, "", <<>>)
           IN  /\ Len(ParsedArgs) = Len(expected)
               /\ \A i \in DOMAIN ParsedArgs :
                      /\ ParsedArgs[i].t = "s"
                      /\ Flat(ParsedArgs[i].v) = expected[i]

\* the two cases the text of the claim names: a"b" and a" "a
C30_WordThenQuote ==
    /\ ppc = "done"
    /\ pinput[Len(pinput)] = CloseLexeme(ShallowDepth)
    /\ presult.ok
    /\ \/ /\ BodyOf(pinput) = <<TextLexeme("a"), QuoteLexeme, TextLexeme("b"), QuoteLexeme>>
          /\ Len(ParsedArgs) = 1
          /\ Flat(ParsedArgs[1].v) = "ab"
       \/ /\ BodyOf(pinput) = <<TextLexeme("a"), QuoteLexeme, TextLexeme(" "), QuoteLexeme,
                                TextLexeme("a")>>
          /\ Len(ParsedArgs) = 1
          /\ Flat(ParsedArgs[1].v) = "a a"

\* a quoted span that begins an argument, with a word right after it
QuoteThenWord ==
    /\ ppc = "done"
    /\ pinput = <<OpenLexeme(ShallowDepth), QuoteLexeme, TextLexeme("a"), QuoteLexeme,
                  TextLexeme("b"), CloseLexeme(ShallowDepth)>>
    /\ Len(ParsedArgs) = 2
    /\ Flat(ParsedArgs[1].v) = "a"
    /\ Flat(ParsedArgs[2].v) = "b"


----------------------------------------------------------------------------
\* Claims about delimiters in a rocket body (checked under SpecParse)

\* C31: a block-open token met by the rocket body of a block opened at depth n
\* opens no block when its depth is smaller than n: the stack keeps its handlers
\* and the body's text gains the characters of that opener, as it gains those of
\* any closer; a block-open of depth at least n puts a new expression of that
\* depth on the stack.
C31_ShallowOpenIsLiteral ==
    (Handled /\ ppc # "panic" /\ Top(pprev).kind = "rocket") =>
        LET r == Top(pprev)
            d == LastToken.depth
        IN  /\ (LastToken.k = "StartBlock" /\ d < r.colon_depth) =>
                   /\ Len(pstack) = Len(pprev)
                   /\ \A i \in 1..(Len(pprev) - 1) : pstack[i] = pprev[i]
                   /\ Top(pstack).kind = "rocket"
                   /\ Top(pstack).root = r.root
                   /\ Flat(Top(pstack).buffer) = Flat(r.buffer) \o OpenLexeme(d).s
            /\ (LastToken.k = "StartBlock" /\ d >= r.colon_depth) =>
                   /\ Len(pstack) = Len(pprev) + 1
                   /\ Top(pstack).kind = "expression"
                   /\ Top(pstack).colon_depth = d
                   /\ Top(pstack).root = <<>>
                   /\ pstack[Len(pprev)].kind = "rocket"
                   /\ pstack[Len(pprev)].buffer = <<>>
            /\ LastToken.k = "RightParen" =>
                   /\ Len(pstack) = Len(pprev)
                   /\ Top(pstack).root = r.root
                   /\ Flat(Top(pstack).buffer) = Flat(r.buffer) \o CloseLexeme(d).s

\* C31 witness: in the rocket body of a block opened with "(::::" a "(:" was met
\* and is the end of the body's text
C31_Witness ==
    /\ Handled
    /\ ppc # "panic"
    /\ Top(pprev).kind = "rocket"
    /\ Top(pprev).colon_depth = DeepDepth
    /\ LastToken = TokenStartBlock(LastToken.line, ShallowDepth)
    /\ Len(pstack) = Len(pprev)
    /\ pinput = <<OpenLexeme(DeepDepth), ArrowLexeme, NewlineLexeme(2),
                  OpenLexeme(ShallowDepth)>>
    /\ Top(pstack).buffer = <<"\n" \o OpenLexeme(ShallowDepth).s>>


----------------------------------------------------------------------------
\* Claims about the division of the work (checked under Spec)

\* the path counts and thread counts the chunking is checked for
MaxPathCount == 9
MaxThreadCount == 4

\* the chunks of a path list for cpus hardware threads, in order
ChunksOf(ps, cpus) == [t \in 1..NumChunks(Len(ps), cpus) |-> Chunk(ps, cpus, t)]

\* the chunks are not empty, at most cpus in number, and joined in order they
\* are the path list
ChunksPartition(ps, cpus) ==
    /\ Len(ChunksOf(ps, cpus)) <= cpus
    /\ \A t \in DOMAIN ChunksOf(ps, cpus) : ChunksOf(ps, cpus)[t] # <<>>
    /\ ConcatAll(ChunksOf(ps, cpus)) = ps

\* the number of Pages for path p held by a thread, in pending_pages or in a job
PageCount(p) ==
    Cardinality({t \in Threads : built[t].source_path = p})
        + Cardinality({i \in DOMAIN pending_pages : pending_pages[i].source_path = p})
        + Cardinality({j \in DOMAIN jobs : jobs[j].page.source_path = p})

\* thread t is past entry k of its chunk, or holds the Page built from it
BuiltBy(t, k) == k < tidx[t] \/ (k = tidx[t] /\ tpc[t] = "push")

\* chunking any list of up to MaxPathCount paths for up to MaxThreadCount threads
AllChunksPartition ==
    \A n \in 0..MaxPathCount : \A c \in 1..MaxThreadCount :
        ChunksPartition([i \in 1..n |-> i], c)

\* C32: the chunks partition the path list in order and are at most num_cpus;
\* a thread goes through its chunk one entry at a time and never back, so that
\* every path is built by the one thread whose chunk holds it and has one Page
\* from then on if it parsed and none otherwise; the link phase has one job per
\* Page, a job is run once and stays done, and when the build returns every
\* job has run.
C32_BuiltOnceLinkedOnce ==
    /\ [](/\ ChunksPartition(paths, num_cpus)
          /\ AllChunksPartition
          /\ \A t \in Threads : \A k \in DOMAIN MyChunk(t) :
                 PageCount(MyChunk(t)[k]) =
                     (IF source[MyChunk(t)[k]].ok /\ BuiltBy(t, k) THEN 1 ELSE 0)
          /\ mpc = "done" =>
                 /\ \A t \in Threads : tpc[t] = "done" /\ tidx[t] = Len(MyChunk(t)) + 1
                 /\ pending_pages = <<>>
                 /\ \A j \in DOMAIN jobs : jobs[j].state = "done")
    /\ [][/\ \A t \in Threads : tidx'[t] \in {tidx[t], tidx[t] + 1}
          /\ \A j \in DOMAIN jobs : jobs[j].state = "done" => jobs'[j] = jobs[j]
          /\ jobs # <<>> =>
                 /\ DOMAIN jobs' = DOMAIN jobs
                 /\ \A j \in DOMAIN jobs : jobs'[j].page = jobs[j].page
                 /\ Cardinality({j \in DOMAIN jobs : jobs'[j] # jobs[j]}) <= 1 ]_vars

\* C32 witness: two paths on two threads, one chunk each, both built and both
\* linked
C32_Witness ==
    /\ mpc = "done"
    /\ Len(paths) = MaxPages
    /\ Cardinality(Threads) = 2
    /\ \A p \in DOMAIN paths : source[p].ok /\ PageCount(p) = 1
    /\ Len(jobs) = Len(paths)
    /\ \A j \in DOMAIN jobs : jobs[j].state = "done"


----------------------------------------------------------------------------
\* page.rs: Slug::depth and Slug::path_to on the characters of a slug

MaxSlugLen == 4

SlugPieces == {"index", "a", "/"}
SlugTexts == UNION {[1..n -> SlugPieces] : n \in 0..MaxSlugLen}
DestTexts == {<<>>, <<"x">>, <<"b", "/", "x">>, <<"_static", "/", "x">>}

\* self.slug.matches('/').count()
MatchesCount(text, c) == Cardinality({i \in DOMAIN text : text[i] = c})

\* Slug::depth without the modifier of pretty URLs
depth_plain(slug, pretty_url) == MatchesCount(slug, "/")

\* Slug::depth
depth(slug, pretty_url) ==
    LET modifier == IF pretty_url /\ slug # <<"index">> THEN 1 ELSE 0
    IN  MatchesCount(slug, "/") + modifier

\* Slug::path_to
path_to(slug, dest, pretty_url) ==
    LET slug_prefix == Repeat("../", depth(slug, pretty_url))
    IN  slug_prefix \o dest

UInit ==
    /\ sslug \in SlugTexts
    /\ sdest \in DestTexts
    /\ spretty \in BOOLEAN
    /\ sresult = <<>>
    /\ spc = "call"
    /\ PipelineIdle
    /\ EvalIdle
    /\ ParseIdle
    /\ LexIdle
    /\ TocIdle
    /\ LockIdle
    /\ VersionIdle

\* s.path_to(d, pretty_url) returns
SlugPathTo ==
    /\ spc = "call"
    /\ sresult' = path_to(sslug, sdest, spretty)
    /\ spc' = "done"
    /\ UNCHANGED <<vvars, kvars, pvars, evars, qvars, lvars, tvars, sslug, sdest, spretty>>

UNext == SlugPathTo

SpecSlug == UInit /\ [][UNext]_vars

----------------------------------------------------------------------------
\* Claims about relative paths (checked under SpecSlug)

\* the separators of a slug, counted from its start
RECURSIVE Separators(_)
Separators(text) ==
    IF text = <<>> THEN 0
    ELSE (IF Head(text) = "/" THEN 1 ELSE 0) + Separators(Tail(text))

\* C33: s.path_to(d) is "../" as many times as s has path separators, once more
\* when pretty URLs are on and s is not "index", and then d.
C33_PathToClimbsDepth ==
    spc = "done" =>
        LET n == Separators(sslug) + (IF spretty /\ Flat(sslug) # "index" THEN 1 ELSE 0)
        IN  /\ Len(sresult) = n + Len(sdest)
            /\ \A i \in 1..n : sresult[i] = "../"
            /\ SubSeq(sresult, n + 1, Len(sresult)) = sdest

\* C33 witness: from a/a (one separator) with pretty URLs the path to _static/x
\* climbs twice; from index it does not climb
C33_Witness ==
    /\ spc = "done"
    /\ spretty
    /\ sdest = <<"_static", "/", "x">>
    /\ \/ sslug = <<"a", "/", "a">> /\ Flat(sresult) = "../../_static/x"
       \/ sslug = <<"index">> /\ Flat(sresult) = "_static/x"


----------------------------------------------------------------------------
\* Claims about failing directives (checked under SpecHead)

\* C34: a child of the page whose directive returned Err left the worker as it
\* was: the refdefs, the pending placeholders, the title of the theme config and
\* the nesting level after it are those before it.
C34_ErrorChangesNothing ==
    \A i \in DOMAIN etrace :
        etrace[i].err =>
            /\ etrace[i].post.refdefs = etrace[i].pre.refdefs
            /\ etrace[i].post.pending_links = etrace[i].pre.pending_links
            /\ etrace[i].post.has_title = etrace[i].pre.has_title
            /\ etrace[i].post.title = etrace[i].pre.title
            /\ etrace[i].post.current_level = etrace[i].pre.current_level

\* a heading given an id was rejected for its level and its id is registered
RejectedHeadingRegistered ==
    \E i \in DOMAIN etrace :
        /\ IsHeadingIdCall(i, 2)
        /\ etrace[i].err
        /\ etrace[i].pre.current_level = 0
        /\ etrace[i].pre.refdefs = <<>>
        /\ DOMAIN etrace[i].post.refdefs = {Flat(program[i].c[2].v)}
        /\ etrace[i].post.has_title


----------------------------------------------------------------------------
\* Worker::evaluate on pages that define names by expressions holding names.

RecItems == {
    Word("x"),                                                  \* x
    Block3("define", Word("k"), Word("v")),                     \* (:define k v:)
    Block3("define", Word("k"), Block1("k")),                   \* (:define k (:k:):)
    Block1("k"),                                                \* (:k:)
    Block3("define", Word("a"), Block1("b")),                   \* (:define a (:b:):)
    Block3("define", Word("b"), Block1("a")),                   \* (:define b (:a:):)
    Block1("a")                                                 \* (:a:)
}

RecPrograms == UNION {[1..n -> RecItems] : n \in 0..MaxProgram}

RInit ==
    /\ program \in RecPrograms
    /\ epos = 1
    /\ ew = EvalWorker
    /\ etrace = <<>>
    /\ epc = "eval"
    /\ eoutput = <<>>
    /\ PipelineIdle
    /\ ParseIdle
    /\ LexIdle
    /\ SlugIdle
    /\ LockIdle
    /\ VersionIdle
    /\ TocIdle

SpecRec == RInit /\ [][ENext]_vars

----------------------------------------------------------------------------
\* Claims about termination of evaluate (checked under SpecRec)

\* C35: evaluate returns for every page: no evaluation uses up the call stack,
\* whatever let and define have stored in the worker's ctx.
C35_EvaluateTerminates ==
    /\ ~ew.overflow
    /\ \A i \in DOMAIN etrace : ~etrace[i].post.overflow

----------------------------------------------------------------------------
\* toctree.rs: add called with any page as the parent, the page itself and pages
\* added later included, as a toctree directive on any page can name any page.

RECURSIVE IsChildOfWithin(_, _, _, _)
\* is_child_of with the call stack it has left: "overflow" when the chain of
\* parents is longer than the stack
IsChildOfWithin(parent, slug, ancestor, stack) ==
    IF stack = 0 THEN "overflow"
    ELSE IF slug = ancestor THEN "true"
    ELSE IF slug \in DOMAIN parent /\ parent[slug] # 0
        THEN IsChildOfWithin(parent, parent[slug], ancestor, stack - 1)
    ELSE "false"

YInit ==
    /\ tparent = <<>>
    /\ titer = "ascending"
    /\ tcache = <<>>
    /\ tcur = 0
    /\ thtml = <<>>
    /\ tcalls = 0
    /\ tstage = "adding"
    /\ PipelineIdle
    /\ EvalIdle
    /\ ParseIdle
    /\ LexIdle
    /\ SlugIdle
    /\ LockIdle
    /\ VersionIdle

\* add(slug, title, parent, next_slug) for the next page, parent any page or None
TocAddAny ==
    /\ tstage = "adding"
    /\ Len(tparent) < MaxTocPages
    /\ \E p \in 0..MaxTocPages : tparent' = Append(tparent, p)
    /\ UNCHANGED <<vvars, kvars, svars, pvars, evars, qvars, lvars, titer, tcache, tcur, thtml, tcalls, tstage>>

\* generate_html(slug): the ancestor tests of subtree_html's loop over the roots
TocRootTests ==
    /\ tstage = "finished"
    /\ tcalls < MaxTocCalls
    /\ \E cur \in DOMAIN tparent :
          /\ tcur' = cur
          /\ thtml' = [r \in {TocRoots(tparent, titer)[i] :
                                  i \in DOMAIN TocRoots(tparent, titer)} |->
                          IsChildOfWithin(tparent, cur, r, MaxTocPages + 1)]
    /\ tcalls' = tcalls + 1
    /\ UNCHANGED <<vvars, kvars, svars, pvars, evars, qvars, lvars, tparent, titer, tcache, tstage>>

YNext == TocAddAny \/ TocTreeFinish \/ TocRootTests

SpecCycle == YInit /\ [][YNext]_vars

----------------------------------------------------------------------------
\* Claims about termination on the table of contents (checked under SpecCycle)

\* C36: the ancestor tests of generate_html return, whatever parents add was
\* given: none follows the chain of parents beyond the number of pages.
C36_AncestorTestTerminates ==
    tcalls > 0 => \A r \in DOMAIN thtml : thtml[r] # "overflow"

----------------------------------------------------------------------------
\* The shared locks of one build.  The evaluator's refdefs, toctree and
\* pending_links are RwLocks, build_project's titles and pending_pages are
\* Mutexes.  A guard lives from its lock()/read()/write() call to the end of
\* the statement or block that holds it.

\* the main thread, as an owner of guards
MainThread == 0

\* the build threads: one per chunk
BuildThreads == 1..MaxCpus

\* the link jobs: one per page the build threads pushed
LinkJobs == {MaxCpus + t : t \in BuildThreads}

\* the calls of one page that take a lock of the evaluator
LockCalls == {"get_placeholder", "insert_refdef", "add_to_toctree"}

\* the lock-taking calls of one page's evaluation: none, one, the two
\* get_placeholder calls of a ref directive, or a definition and a toctree entry
PageCalls ==
    {<<>>} \cup {<<c>> : c \in LockCalls}
           \cup {<<"get_placeholder", "get_placeholder">>, <<"insert_refdef", "add_to_toctree">>}

\* what the thread's closure does after build_file returned the page
AfterBuild == <<"titles.insert", "pending_pages.push">>

\* the lock a call takes and how: "w" write, "r" read, "x" mutex
LockOf(call) ==
    CASE call = "get_placeholder" -> <<"pending_links", "w">>
      [] call = "insert_refdef" -> <<"refdefs", "w">>
      [] call = "add_to_toctree" -> <<"toctree", "w">>
      [] call = "titles.insert" -> <<"titles", "x">>
      [] call = "pending_pages.push" -> <<"pending_pages", "x">>

\* lock()/read()/write() returns at once: readers share, everything else excludes
CanAcquire(held, lock, mode) ==
    \A g \in held : g[2] = lock => (mode = "r" /\ g[3] = "r")

\* mutant: the guards of an owner outlive the statement
ReleasedNever(held, owner) == held

\* the guards left when those of an owner are dropped at the end of the statement
Released(held, owner) == {g \in held : g[1] # owner}

\* the state once main has spawned one thread per chunk
WInit ==
    /\ kscript \in [BuildThreads -> {p \o AfterBuild : p \in PageCalls}]
    /\ kpc = [t \in BuildThreads |-> "run"]
    /\ kheld = {}
    /\ kmain = "join"
    /\ kjob = [j \in LinkJobs |-> "none"]
    /\ PipelineIdle
    /\ EvalIdle
    /\ ParseIdle
    /\ LexIdle
    /\ TocIdle
    /\ SlugIdle
    /\ VersionIdle

\* a build thread's next call takes its lock
BuildAcquire(t) ==
    /\ kpc[t] = "run"
    /\ kscript[t] # <<>>
    /\ LET l == LockOf(Head(kscript[t]))
       IN  /\ CanAcquire(kheld, l[1], l[2])
           /\ kheld' = kheld \cup {<<t, l[1], l[2]>>}
    /\ kpc' = [kpc EXCEPT ![t] = "hold"]
    /\ UNCHANGED <<vvars, pvars, evars, qvars, lvars, tvars, svars, kscript, kmain, kjob>>

\* the call's statement ends and its guard is dropped
BuildRelease(t) ==
    /\ kpc[t] = "hold"
    /\ kheld' = Released(kheld, t)
    /\ kscript' = [kscript EXCEPT ![t] = Tail(@)]
    /\ kpc' = [kpc EXCEPT ![t] = "run"]
    /\ UNCHANGED <<vvars, pvars, evars, qvars, lvars, tvars, svars, kmain, kjob>>

\* the thread's chunk is exhausted
BuildExit(t) ==
    /\ kpc[t] = "run"
    /\ kscript[t] = <<>>
    /\ kpc' = [kpc EXCEPT ![t] = "done"]
    /\ UNCHANGED <<vvars, pvars, evars, qvars, lvars, tvars, svars, kscript, kheld, kmain, kjob>>

\* thread.join() has returned for every thread
MainJoin ==
    /\ kmain = "join"
    /\ \A t \in BuildThreads : kpc[t] = "done"
    /\ kmain' = "toctree"
    /\ UNCHANGED <<vvars, pvars, evars, qvars, lvars, tvars, svars, kscript, kpc, kheld, kjob>>

\* the lock main takes next: toctree.write(), titles.lock(), pending_pages.lock()
MainLock(at) ==
    CASE at = "toctree" -> <<"toctree", "w">>
      [] at = "titles" -> <<"titles", "x">>
      [] at = "pool" -> <<"pending_pages", "x">>

\* where main stands once it holds the guard
MainHolding(at) ==
    CASE at = "toctree" -> "replace"
      [] at = "titles" -> "finish"
      [] at = "pool" -> "drain"

\* main takes the tree, the titles or the pending pages; draining the pages
\* hands one job per page to the pool
MainAcquire ==
    /\ kmain \in {"toctree", "titles", "pool"}
    /\ LET l == MainLock(kmain)
       IN  /\ CanAcquire(kheld, l[1], l[2])
           /\ kheld' = kheld \cup {<<MainThread, l[1], l[2]>>}
    /\ kmain' = MainHolding(kmain)
    /\ kjob' = IF kmain = "pool" THEN [j \in LinkJobs |-> "queued"] ELSE kjob
    /\ UNCHANGED <<vvars, pvars, evars, qvars, lvars, tvars, svars, kscript, kpc>>

\* the block, the statement or the closure of pool.scoped ends
MainRelease ==
    /\ kmain \in {"replace", "finish", "drain"}
    /\ kheld' = Released(kheld, MainThread)
    /\ kmain' = CASE kmain = "replace" -> "titles"
                  [] kmain = "finish" -> "pool"
                  [] kmain = "drain" -> "scoped"
    /\ UNCHANGED <<vvars, pvars, evars, qvars, lvars, tvars, svars, kscript, kpc, kjob>>

\* substitute's closure for a placeholder: r1 = pending_links.read()
JobReadLinks(j) ==
    /\ kjob[j] = "queued"
    /\ CanAcquire(kheld, "pending_links", "r")
    /\ kheld' = kheld \cup {<<j, "pending_links", "r">>}
    /\ kjob' = [kjob EXCEPT ![j] = "r1"]
    /\ UNCHANGED <<vvars, pvars, evars, qvars, lvars, tvars, svars, kscript, kpc, kmain>>

\* r2 = refdefs.read(), with r1 still alive
JobReadRefdefs(j) ==
    /\ kjob[j] = "r1"
    /\ CanAcquire(kheld, "refdefs", "r")
    /\ kheld' = kheld \cup {<<j, "refdefs", "r">>}
    /\ kjob' = [kjob EXCEPT ![j] = "r2"]
    /\ UNCHANGED <<vvars, pvars, evars, qvars, lvars, tvars, svars, kscript, kpc, kmain>>

\* the closure returns, both guards are dropped and the page is written
JobDone(j) ==
    /\ kjob[j] = "r2"
    /\ kheld' = Released(kheld, j)
    /\ kjob' = [kjob EXCEPT ![j] = "done"]
    /\ UNCHANGED <<vvars, pvars, evars, qvars, lvars, tvars, svars, kscript, kpc, kmain>>

\* pool.scoped returns once every job has run
MainScopedDone ==
    /\ kmain = "scoped"
    /\ \A j \in LinkJobs : kjob[j] = "done"
    /\ kmain' = "done"
    /\ UNCHANGED <<vvars, pvars, evars, qvars, lvars, tvars, svars, kscript, kpc, kheld, kjob>>

WNext ==
    \/ \E t \in BuildThreads : BuildAcquire(t) \/ BuildRelease(t) \/ BuildExit(t)
    \/ MainJoin
    \/ MainAcquire
    \/ MainRelease
    \/ \E j \in LinkJobs : JobReadLinks(j) \/ JobReadRefdefs(j) \/ JobDone(j)
    \/ MainScopedDone

SpecLocks == WInit /\ [][WNext]_vars

\* the operating system runs a thread that can run, and the pool a job it was given
SpecLocksFair == SpecLocks /\ WF_vars(WNext)

----------------------------------------------------------------------------
\* Claims about the locks (checked under SpecLocksFair)

\* the lock an owner is about to wait for, or <<>>
Wanted(o) ==
    IF o = MainThread
    THEN IF kmain \in {"toctree", "titles", "pool"} THEN <<MainLock(kmain)[1]>> ELSE <<>>
    ELSE IF o \in BuildThreads
    THEN IF kpc[o] = "run" /\ kscript[o] # <<>> THEN <<LockOf(Head(kscript[o]))[1]>> ELSE <<>>
    ELSE IF kjob[o] = "queued" THEN <<"pending_links">>
    ELSE IF kjob[o] = "r1" THEN <<"refdefs">>
    ELSE <<>>

\* owner o holds lock a and is about to wait for lock b
HoldsAndWants(o, a, b) ==
    /\ \E g \in kheld : g[1] = o /\ g[2] = a
    /\ Wanted(o) = <<b>>

Owners == {MainThread} \cup BuildThreads \cup LinkJobs

\* every build has come to its end
BuildOver ==
    /\ kmain = "done"
    /\ \A t \in BuildThreads : kpc[t] = "done"
    /\ \A j \in LinkJobs : kjob[j] = "done"
    /\ kheld = {}

\* C37: no thread waits for a lock while holding one that another thread,
\* holding the first, waits for; a build that is not over can take a step;
\* and every build comes to its end with all threads joined and all jobs done.
C37_NoDeadlock ==
    /\ [](\A o1, o2 \in Owners : \A a, b \in {"refdefs", "toctree", "pending_links", "titles", "pending_pages"} :
            ~(o1 # o2 /\ a # b /\ HoldsAndWants(o1, a, b) /\ HoldsAndWants(o2, b, a)))
    /\ [](BuildOver \/ ENABLED WNext)
    /\ <>BuildOver

\* a link job holds the read guard of pending_links and is about to take
\* that of refdefs while another job already holds both
C37_Witness ==
    \E j1, j2 \in LinkJobs :
        /\ j1 # j2
        /\ HoldsAndWants(j1, "pending_links", "refdefs")
        /\ kjob[j2] = "r2"

\* a build thread waits for a lock another build thread holds
BuildThreadWaits ==
    \E t1, t2 \in BuildThreads :
        /\ t1 # t2
        /\ kpc[t1] = "hold"
        /\ kpc[t2] = "run"
        /\ kscript[t2] # <<>>
        /\ ~CanAcquire(kheld, LockOf(Head(kscript[t2]))[1], LockOf(Head(kscript[t2]))[2])

----------------------------------------------------------------------------
\* directives/mod.rs Version: the version directive

\* version.split('.'): the components between the dots, at least one
RECURSIVE SplitDots(_, _)
SplitDots(text, component) ==
    IF text = <<>> THEN <<component>>
    ELSE IF Head(text) = "." THEN <<component>> \o SplitDots(Tail(text), <<>>)
    ELSE SplitDots(Tail(text), Append(component, Head(text)))

\* Version::new
VersionNew(text) == SplitDots(text, <<>>)

\* components.join(".")
RECURSIVE JoinDots(_)
JoinDots(components) ==
    IF components = <<>> THEN <<>>
    ELSE IF Len(components) = 1 THEN components[1]
    ELSE components[1] \o <<".">> \o JoinDots(Tail(components))

\* arg.matches('.').count()
RECURSIVE DotCount(_)
DotCount(text) ==
    IF text = <<>> THEN 0
    ELSE (IF Head(text) = "." THEN 1 ELSE 0) + DotCount(Tail(text))

\* what a call of handle comes to: Ok(out), Err(()) or a panic
Returned(ok, w, out) == [ok |-> ok, w |-> w, out |-> out, panic |-> FALSE]
Panicked(w) == [ok |-> FALSE, w |-> w, out |-> <<>>, panic |-> TRUE]

\* Version::handle; self.version[..n_components] panics beyond the Vec's length
VersionHandle(version, w, args, fuel) ==
    IF Len(args) = 0 THEN Returned(TRUE, w, JoinDots(version))
    ELSE IF Len(args) = 1
        THEN LET arg == Eval(w, args[1], fuel - 1)
                 n_components == DotCount(arg.out) + 1
             IN  IF Flat(arg.out) = "" THEN Returned(TRUE, arg.w, <<>>)
                 ELSE IF n_components > Len(version) THEN Panicked(arg.w)
                 ELSE Returned(TRUE, arg.w, JoinDots(SubSeq(version, 1, n_components)))
    ELSE Returned(FALSE, w, <<>>)

\* the texts the project's configuration gives as the version
VersionTexts == {<<>>, <<"3">>, <<"3", ".", "4">>, <<"3", ".", "4", ".", "0">>}

\* the arguments: "", x, x.y, x.y.z, a lone dot, w.x.y.z and (:concat 3. 4:)
VersionArgs == {
    NodeString(<<>>),
    NodeString(<<"x">>),
    NodeString(<<"x", ".", "y">>),
    NodeString(<<"x", ".", "y", ".", "z">>),
    NodeString(<<".">>),
    NodeString(<<"w", ".", "x", ".", "y", ".", "z">>),
    Block3("concat", NodeString(<<"3", ".">>), Word("4"))
}

VInit ==
    /\ vversion \in VersionTexts
    /\ vargs \in UNION {[1..n -> VersionArgs] : n \in 0..2}
    /\ vresult = <<>>
    /\ vpc = "call"
    /\ PipelineIdle
    /\ EvalIdle
    /\ ParseIdle
    /\ LexIdle
    /\ TocIdle
    /\ SlugIdle
    /\ LockIdle

\* Version::new(version).handle(worker, args)
VersionCall ==
    /\ vpc = "call"
    /\ vresult' = VersionHandle(VersionNew(vversion), EvalWorker, vargs, MaxDepth)
    /\ vpc' = "done"
    /\ UNCHANGED <<pvars, evars, qvars, lvars, tvars, svars, kvars, vversion, vargs>>

VNext == VersionCall

SpecVersion == VInit /\ [][VNext]_vars

----------------------------------------------------------------------------
\* Claims about the version directive (checked under SpecVersion)

\* the evaluated text of the only argument
OnlyArg == Eval(EvalWorker, vargs[1], MaxDepth - 1).out

\* the d + 1 leading components of the version, or all of them if it has fewer
Leading(version, n) ==
    SubSeq(version, 1, IF n < Len(version) THEN n ELSE Len(version))

\* C38: the version directive never panics: every call returns Ok or Err, and
\* with one non-empty argument of d dots it returns the version's first d + 1
\* components joined by dots, also when the version has fewer than d + 1.
C38_VersionNeverPanics ==
    vpc = "done" =>
        /\ ~vresult.panic
        /\ (Len(vargs) = 1 /\ Flat(OnlyArg) # "")
              => /\ vresult.ok
                 /\ vresult.out = JoinDots(Leading(VersionNew(vversion), DotCount(OnlyArg) + 1))

\* test_version: "3.4.0" with the argument x.y gives 3.4
VersionTestCase ==
    /\ vpc = "done"
    /\ vversion = <<"3", ".", "4", ".", "0">>
    /\ vargs = <<NodeString(<<"x", ".", "y">>)>>
    /\ vresult = Returned(TRUE, EvalWorker, <<"3", ".", "4">>)

----------------------------------------------------------------------------
\* Claims about the indentation stack as a whole (checked under SpecIndent)

\* how many tokens of a kind the first n tokens hold
KindCount(tokens, n, kind) == Cardinality({i \in 1..n : tokens[i].k = kind})

\* C39: the indentation stack is never empty, has 0 at its bottom and does not
\* decrease from bottom to top; the tokens lex returns hold as many Dedents as
\* Indents, and no prefix of them holds more Dedents than Indents.
C39_IndentationBalanced ==
    /\ Len(lindent) >= 1
    /\ lindent[1] = 0
    /\ \A i \in 1..(Len(lindent) - 1) : lindent[i] <= lindent[i + 1]
    /\ lpc = "done" =>
          /\ KindCount(ltokens, Len(ltokens), "Dedent") = KindCount(ltokens, Len(ltokens), "Indent")
          /\ \A n \in 0..Len(ltokens) :
                KindCount(ltokens, n, "Indent") >= KindCount(ltokens, n, "Dedent")

\* lex has returned a stream with two Indents, one closed by a Dedent inside
\* the stream and one by a Dedent after the last match
C39_Witness ==
    /\ lpc = "done"
    /\ KindCount(ltokens, Len(ltokens), "Indent") = 2
    /\ ltokens[Len(ltokens)].k = "Dedent"
    /\ \E i \in 1..(Len(ltokens) - 1) : ltokens[i].k = "Dedent" /\ ltokens[i + 1].k # "Dedent"

\* two levels are open at once while the lexer runs
TwoLevelsOpen == lpc = "lex" /\ Len(lindent) = 3 /\ lindent[2] < lindent[3]

====
